---- MODULE Spec2Model ----
(***************************************************************************)
(* Verification model of arangodantic: the persistence state machine of a  *)
(* record (Model.save / load / reload / delete, Graph.save), the document  *)
(* store it talks to through the python-arango drivers, and the named lock *)
(* used by lock_and_load / lock_and_reload.                                *)
(***************************************************************************)
EXTENDS Integers, Sequences, FiniteSets, TLC

(* ---------------------------------------------------------------------- *)
(* Bounds                                                                  *)
(* ---------------------------------------------------------------------- *)
\* number of document revisions the store hands out in one run
MaxRev == 2
\* cap of the per-handle count of delete calls after a successful delete
MaxRepeat == 2

Callers == {"c1", "c2"}
Keys == {"k1", "k2"}
Names == {"a", "b"}
RevName == <<"r1", "r2", "r3", "r4", "r5", "r6">>

\* Python's None
None == "None"
\* name of the collection of the record type (Model.get_collection_name)
COLL == "identities"

\* store error codes
ERROR_ARANGO_CONFLICT == 1200
DOCUMENT_NOT_FOUND == 1202
ERROR_ARANGO_DOCUMENT_KEY_BAD == 1221
ERROR_ARANGO_UNIQUE_CONSTRAINT_VIOLATED == 1210

VARIABLES
    keyGen,      \* CONF.key_gen is configured
    uniqueName,  \* the collection has a unique index on the payload field
    docs,        \* the stored documents of the collection, by key
    revCtr,      \* number of revisions the store has handed out
    rec,         \* the record handle of each caller: key_, rev_, payload
    req,         \* the store request in flight of each caller
    ev,          \* the operation that has just returned or raised, if any
    everOk,      \* a store write or load has succeeded for the caller's handle
    deleted,     \* delete calls completed on the handle since its successful delete
    staleWrite,  \* the store has accepted an update that presented a stale revision
    lockConf,    \* CONF.lock is configured
    locks,       \* the lock collection: per name, the caller whose acquire inserted the document
    pc,          \* where each caller is in lock_and_load / lock_and_reload / a lock of its own
    scope,       \* the scoped operation of each caller: its kind, key, lock name, pending error
    trace,       \* the events of the caller's scoped operation so far
    ttlFired,    \* per name: the TTL index has removed a document since the lock was last unused
    cursors,     \* the store's open cursors: per find, the rows not yet delivered
    cursor,      \* the cursor object of each caller: the driver's fields and its history
    graphs,      \* the names of the graphs that the store has a definition of
    edges,       \* the stored edges of each edge collection, by key
    edge         \* the edge handle of each caller

lockVars == <<lockConf, locks, pc, scope, trace, ttlFired>>
cursorVars == <<cursors, cursor>>
graphVars == <<graphs, edges, edge>>
vars == <<keyGen, uniqueName, docs, revCtr, rec, req, ev, everOk, deleted, staleWrite,
          lockConf, locks, pc, scope, trace, ttlFired, cursors, cursor, graphs, edges, edge>>

(* ---------------------------------------------------------------------- *)
(* Values                                                                  *)
(* ---------------------------------------------------------------------- *)
NoDoc == [rev |-> "", name |-> ""]
NoId == [coll |-> None, key |-> None]
NoReq == [op |-> "none"]
NoEv == [op |-> "none"]

Ret(v) == [kind |-> "return", exc |-> "none", code |-> 0, value |-> v]
Raise(e, c) == [kind |-> "raise", exc |-> e, code |-> c, value |-> "none"]

\* replies of the driver to one request
Ok(k, r) == [st |-> "ok", err |-> "none", code |-> 0, key |-> k, rev |-> r]
Err(e, c) == [st |-> "err", err |-> e, code |-> c, key |-> None, rev |-> ""]
Missing == [st |-> "missing", err |-> "none", code |-> DOCUMENT_NOT_FOUND, key |-> None, rev |-> ""]
\* the driver fails on the document before any request is sent
ClientErr == [st |-> "err", err |-> "AttributeError", code |-> 0, key |-> None, rev |-> ""]

\* except <cls> as e: the driver's errors are siblings below ArangoServerError
IsInstance(err, cls) == err # "AttributeError" /\ (cls = err \/ cls = "ArangoServerError")

(* ---------------------------------------------------------------------- *)
(* Record serialisation                                                    *)
(* ---------------------------------------------------------------------- *)
\* Model.id_
id_(r) == IF r.key_ = None THEN NoId ELSE [coll |-> COLL, key |-> r.key_]

\* variant: the revision is left out of the serialised document
get_arangodb_data_norev(r) ==
    [has |-> {"_key", "_id", "name"},
     key |-> r.key_, rev |-> r.rev_, id |-> id_(r), name |-> r.name]

\* Model.get_arangodb_data: dump by alias, then data["_id"] = self.id_
get_arangodb_data(r) ==
    [has |-> {"_key", "_rev", "_id", "name"},
     key |-> r.key_, rev |-> r.rev_, id |-> id_(r), name |-> r.name]

\* del data[f]
Del(data, f) == [data EXCEPT !.has = @ \ {f}]

(* ---------------------------------------------------------------------- *)
(* The store behind the drivers                                            *)
(* ---------------------------------------------------------------------- *)
Exists(k) == k \in Keys /\ docs[k] # NoDoc
NameTaken(n, self) ==
    uniqueName /\ \E k \in Keys \ {self} : Exists(k) /\ docs[k].name = n
NewRev == RevName[revCtr + 1]

\* the server inserts under a key chosen by the client
ServerInsert(k, n, errT) ==
    IF Exists(k) \/ NameTaken(n, k)
    THEN {Err(errT, ERROR_ARANGO_UNIQUE_CONSTRAINT_VIOLATED)}
    ELSE {Ok(k, NewRev)}

\* the server inserts under a key of its own choice
ServerAssign(n, errT) ==
    IF NameTaken(n, None)
    THEN {Err(errT, ERROR_ARANGO_UNIQUE_CONSTRAINT_VIOLATED)}
    ELSE {Ok(k, NewRev) : k \in {x \in Keys : ~Exists(x)}}

\* collection.insert(document=data) / graph.insert_vertex(vertex=data):
\* the driver takes the key from "_id" when "_key" is missing; a null "_key"
\* reaches the server, which rejects it or assigns a key.
DriverInsert(data, errT) ==
    IF "_key" \in data.has
    THEN IF data.key = None
         THEN {Err(errT, ERROR_ARANGO_DOCUMENT_KEY_BAD)} \cup ServerAssign(data.name, errT)
         ELSE ServerInsert(data.key, data.name, errT)
    ELSE IF "_id" \in data.has
         THEN IF data.id = NoId
              THEN {ClientErr}
              ELSE ServerInsert(data.id.key, data.name, errT)
         ELSE ServerAssign(data.name, errT)

\* variant: a write is accepted whatever revision it presents
RevOkUnchecked(data, k) == {TRUE}

\* the revision a write presents, compared with the stored one (check_rev)
RevOk(data, k) ==
    IF "_rev" \in data.has /\ data.rev # docs[k].rev
    THEN IF data.rev = "" THEN {TRUE, FALSE} ELSE {FALSE}
    ELSE {TRUE}

\* variant: a write to a key without a document creates the document
DriverWriteCreates(data, errT) ==
    IF data.key = None THEN {ClientErr} ELSE {Ok(data.key, NewRev)}

\* collection.update(document=data) / graph.replace_vertex(vertex=data):
\* errT is the error class the driver raises for a rejected write; a
\* revision mismatch is raised as DocumentRevisionError.
DriverWrite(data, errT) ==
    IF data.key = None THEN {ClientErr}
    ELSE IF ~Exists(data.key) THEN {Err(errT, DOCUMENT_NOT_FOUND)}
    ELSE {IF ~m THEN Err("DocumentRevisionError", ERROR_ARANGO_CONFLICT)
          ELSE IF NameTaken(data.name, data.key)
               THEN Err(errT, ERROR_ARANGO_UNIQUE_CONSTRAINT_VIOLATED)
               ELSE Ok(data.key, NewRev) : m \in RevOk(data, data.key)}

\* collection.delete(document=data, silent=True, ignore_missing=...)
DriverDelete(data, ignore_missing) ==
    IF data.id = NoId THEN {ClientErr}
    ELSE IF ~Exists(data.id.key)
         THEN {IF ignore_missing THEN Missing
               ELSE Err("DocumentDeleteError", DOCUMENT_NOT_FOUND)}
         ELSE {IF m THEN Ok(data.id.key, "")
               ELSE Err("DocumentRevisionError", ERROR_ARANGO_CONFLICT)
               : m \in RevOk(data, data.id.key)}

\* the documents after the store has served a request
DocsAfter(op, reply, data) ==
    IF reply.st # "ok" THEN docs
    ELSE IF op = "delete" THEN [docs EXCEPT ![reply.key] = NoDoc]
    ELSE [docs EXCEPT ![reply.key] = [rev |-> reply.rev, name |-> data.name]]


(* ---------------------------------------------------------------------- *)
(* Model.save and Graph.save                                               *)
(* ---------------------------------------------------------------------- *)
\* the Transient branch is taken (self.rev_ == "" / not model.rev_)
IsNew(r) == r.rev_ = ""

\* the handle after the key generator has run: a Transient record without
\* a key gets str(CONF.key_gen()) before the hook and the store call
SaveKey(r, g) ==
    IF IsNew(r) /\ r.key_ = None /\ keyGen THEN [r EXCEPT !.key_ = g] ELSE r

\* the document handed to the driver
SaveData(r, via) ==
    LET data == get_arangodb_data(r) IN
    IF IsNew(r) /\ r.key_ = None
    THEN IF via = "model" THEN Del(data, "_id") ELSE Del(data, "_key")
    ELSE data

\* the driver call of each branch, with the error class it raises
SaveCall(via, branch, data) ==
    IF branch = "insert" THEN DriverInsert(data, "DocumentInsertError")
    ELSE IF via = "model" THEN DriverWrite(data, "DocumentUpdateError")
    ELSE DriverWrite(data, "DocumentReplaceError")

\* the class named by the except clause around the driver call
SaveHandler(via, branch) ==
    IF branch = "insert" THEN "DocumentInsertError" ELSE "DocumentReplaceError"

\* what save returns or raises for a reply of the driver
SaveOutcome(via, branch, reply) ==
    IF reply.st = "ok" THEN Ret(None)
    ELSE IF IsInstance(reply.err, SaveHandler(via, branch))
         THEN IF reply.code = ERROR_ARANGO_UNIQUE_CONSTRAINT_VIOLATED
              THEN Raise("UniqueConstraintError", 0)
              ELSE IF via = "graph" /\ reply.code = DOCUMENT_NOT_FOUND
                   THEN Raise("ModelNotFoundError", 0)
                   ELSE Raise(reply.err, reply.code)
         ELSE Raise(reply.err, reply.code)

\* variant: only the key of the response is taken over
SaveApplyNoRev(r, reply) ==
    IF reply.st = "ok" THEN [r EXCEPT !.key_ = reply.key] ELSE r

\* variant: only the revision of the response is taken over
SaveApplyKeepKey(r, reply) ==
    IF reply.st = "ok" THEN [r EXCEPT !.rev_ = reply.rev] ELSE r

\* self.key_ = response["_key"]; self.rev_ = response["_rev"]
SaveApply(r, reply) ==
    IF reply.st = "ok" THEN [r EXCEPT !.key_ = reply.key, !.rev_ = reply.rev] ELSE r

\* the record of a call that has just finished: who called what, what the
\* driver answered and what the caller got
Event(c, q, reply, out) ==
    [c |-> c, op |-> q.op, via |-> q.via, branch |-> q.branch, ignore |-> q.ignore,
     key |-> q.data.key, reply |-> reply, out |-> out]

\* the caller is between two calls and the last result has been taken
Idle(c) == req[c] = NoReq /\ ev = NoEv

\* the caller builds a new record in memory, with or without a key
Construct(c, k) ==
    /\ Idle(c)
    /\ rec' = [rec EXCEPT ![c] = [key_ |-> k, rev_ |-> "", name |-> "a"]]
    /\ everOk' = [everOk EXCEPT ![c] = FALSE]
    /\ deleted' = [deleted EXCEPT ![c] = 0]
    /\ UNCHANGED ev
    /\ UNCHANGED <<keyGen, uniqueName, docs, revCtr, req, staleWrite>>
    /\ UNCHANGED lockVars
    /\ UNCHANGED cursorVars
    /\ UNCHANGED graphVars

\* the caller changes the payload of its record
SetName(c, n) ==
    /\ Idle(c)
    /\ rec[c].name # n
    /\ rec' = [rec EXCEPT ![c].name = n]
    /\ UNCHANGED ev
    /\ UNCHANGED <<keyGen, uniqueName, docs, revCtr, req, everOk, deleted, staleWrite>>
    /\ UNCHANGED lockVars
    /\ UNCHANGED cursorVars
    /\ UNCHANGED graphVars

\* the keyword arguments of a save call: none, or override_extra
NoKwargs == [override_extra |-> None]

\* variant: the hook is told that the record is new whatever its revision
HookCallAlwaysNew(r, kwargs) == [kwargs |-> kwargs, new |-> TRUE]

\* await self.before_save(new=True / new=False, **kwargs): what the hook gets
HookCall(r, kwargs) == [kwargs |-> kwargs, new |-> IsNew(r)]

\* the hook of a record type that overrides it: a given override_extra is
\* written to the payload; the hook of Model does nothing
before_save(r, call) ==
    IF call.kwargs.override_extra # None
    THEN [r EXCEPT !.name = call.kwargs.override_extra]
    ELSE r

\* save(**kwargs) up to the store call: key generation, hook, serialisation
SaveStart(c, via, kwargs) ==
    /\ Idle(c)
    /\ \E g \in (IF SaveKey(rec[c], "k1") = rec[c] THEN {"k1"} ELSE Keys) :
         LET r == SaveKey(rec[c], g)
             call == HookCall(r, kwargs)
             h == before_save(r, call)
         IN
         /\ rec' = [rec EXCEPT ![c] = h]
         /\ req' = [req EXCEPT ![c] =
                [op |-> "save", data |-> SaveData(h, via), via |-> via,
                 branch |-> IF IsNew(r) THEN "insert" ELSE "update",
                 ignore |-> FALSE, kwargs |-> kwargs, hook |-> <<call>>,
                 pre |-> rec[c]]]
    /\ UNCHANGED ev
    /\ UNCHANGED <<keyGen, uniqueName, docs, revCtr, everOk, deleted, staleWrite>>
    /\ UNCHANGED lockVars
    /\ UNCHANGED cursorVars
    /\ UNCHANGED graphVars

\* save() without keyword arguments
SaveBegin(c, via) == SaveStart(c, via, NoKwargs)

\* the store serves the write and save returns or raises
SaveComplete(c) ==
    /\ req[c].op = "save"
    /\ ev = NoEv
    /\ \E reply \in SaveCall(req[c].via, req[c].branch, req[c].data) :
         LET q == req[c]
             out == SaveOutcome(q.via, q.branch, reply)
             ok == reply.st = "ok"
             stale == q.branch = "update" /\ ok /\ q.data.rev # docs[reply.key].rev
         IN
         \* MaxRev bounds the writes of a current revision
         /\ (ok /\ ~stale) => revCtr < MaxRev
         /\ docs' = DocsAfter("save", reply, q.data)
         /\ revCtr' = IF ok THEN revCtr + 1 ELSE revCtr
         /\ rec' = [rec EXCEPT ![c] = SaveApply(@, reply)]
         /\ everOk' = [everOk EXCEPT ![c] = @ \/ out.kind = "return"]
         /\ deleted' = [deleted EXCEPT ![c] = IF ok THEN 0 ELSE @]
         /\ staleWrite' = (staleWrite \/ stale)
         /\ ev' = Event(c, q, reply, out)
    /\ req' = [req EXCEPT ![c] = NoReq]
    /\ UNCHANGED <<keyGen, uniqueName>>
    /\ UNCHANGED lockVars
    /\ UNCHANGED cursorVars
    /\ UNCHANGED graphVars

(* ---------------------------------------------------------------------- *)
(* Model.load and Model.reload                                             *)
(* ---------------------------------------------------------------------- *)
\* collection.get(document={"_key": key}): None when there is no document
DriverGet(k) ==
    IF Exists(k) THEN Ok(k, docs[k].rev) ELSE Missing

\* load: a missing document raises, a found one becomes a record
LoadOutcome(reply) ==
    IF reply.st = "ok" THEN Ret("record") ELSE Raise("ModelNotFoundError", 0)

\* cls(**response)
LoadRecord(reply) ==
    [key_ |-> reply.key, rev_ |-> reply.rev, name |-> docs[reply.key].name]

NoData == get_arangodb_data([key_ |-> None, rev_ |-> "", name |-> ""])

Call(op, branch, ignore, r, data) ==
    [op |-> op, via |-> "model", branch |-> branch, ignore |-> ignore,
     pre |-> r, data |-> data]

\* load returns a fresh handle, which the caller keeps as its record
Load(c, k) ==
    /\ Idle(c)
    /\ LET q == Call("load", "get", FALSE, rec[c], [NoData EXCEPT !.key = k])
           reply == DriverGet(k)
           out == LoadOutcome(reply)
       IN
       /\ rec' = [rec EXCEPT ![c] = IF out.kind = "return" THEN LoadRecord(reply) ELSE @]
       /\ everOk' = [everOk EXCEPT ![c] = IF out.kind = "return" THEN TRUE ELSE @]
       /\ deleted' = [deleted EXCEPT ![c] = IF out.kind = "return" THEN 0 ELSE @]
       /\ ev' = Event(c, q, reply, out)
    /\ UNCHANGED <<keyGen, uniqueName, docs, revCtr, req, staleWrite>>
    /\ UNCHANGED lockVars
    /\ UNCHANGED cursorVars
    /\ UNCHANGED graphVars

\* variant: only a key that is None is refused
ReloadHasKeyNotNone(r) == r.key_ # None

\* reload refuses a record without a key before any request: `if not self.key_`
\* holds for None and for the empty string
ReloadHasKey(r) == r.key_ # None /\ r.key_ # ""

\* reload: load(self.key_), then self.__dict__.update(new.__dict__)
Reload(c) ==
    /\ Idle(c)
    /\ LET q == Call("reload", IF ReloadHasKey(rec[c]) THEN "get" ELSE "nokey",
                     FALSE, rec[c], [NoData EXCEPT !.key = rec[c].key_])
           reply == IF ReloadHasKey(rec[c]) THEN DriverGet(rec[c].key_) ELSE Missing
           out == LoadOutcome(reply)
       IN
       /\ rec' = [rec EXCEPT ![c] = IF out.kind = "return" THEN LoadRecord(reply) ELSE @]
       /\ everOk' = [everOk EXCEPT ![c] = IF out.kind = "return" THEN TRUE ELSE @]
       /\ deleted' = [deleted EXCEPT ![c] = IF out.kind = "return" THEN 0 ELSE @]
       /\ ev' = Event(c, q, reply, out)
    /\ UNCHANGED <<keyGen, uniqueName, docs, revCtr, req, staleWrite>>
    /\ UNCHANGED lockVars
    /\ UNCHANGED cursorVars
    /\ UNCHANGED graphVars

(* ---------------------------------------------------------------------- *)
(* Model.delete                                                            *)
(* ---------------------------------------------------------------------- *)
\* the driver call of delete, with the caller's ignore_missing
DeleteCallNoIgnore(data, ignore_missing) == DriverDelete(data, FALSE)

DeleteCall(data, ignore_missing) == DriverDelete(data, ignore_missing)

\* variant: with ignore_missing every failure is reported as False
DeleteOutcomeSwallow(reply, ignore_missing) ==
    IF reply.st = "ok" THEN Ret("True")
    ELSE IF reply.st = "missing" \/ ignore_missing THEN Ret("False")
    ELSE IF IsInstance(reply.err, "DocumentDeleteError") /\ reply.code = DOCUMENT_NOT_FOUND
         THEN Raise("ModelNotFoundError", 0)
         ELSE Raise(reply.err, reply.code)

\* what delete returns or raises for a reply of the driver
DeleteOutcome(reply, ignore_missing) ==
    IF reply.st = "ok" THEN Ret("True")
    ELSE IF reply.st = "missing" THEN Ret("False")
    ELSE IF IsInstance(reply.err, "DocumentDeleteError") /\ reply.code = DOCUMENT_NOT_FOUND
         THEN Raise("ModelNotFoundError", 0)
         ELSE Raise(reply.err, reply.code)

Min(a, b) == IF a < b THEN a ELSE b

\* delete: the store serves the request; no local field of the record changes
Delete(c, ignore_missing) ==
    /\ Idle(c)
    /\ \E reply \in DeleteCall(get_arangodb_data(rec[c]), ignore_missing) :
         LET q == Call("delete", "delete", ignore_missing, rec[c], get_arangodb_data(rec[c]))
             out == DeleteOutcome(reply, ignore_missing)
         IN
         /\ docs' = DocsAfter("delete", reply, q.data)
         /\ deleted' = [deleted EXCEPT ![c] =
                IF reply.st = "ok" THEN 1
                ELSE IF @ > 0 THEN Min(@ + 1, MaxRepeat) ELSE 0]
         /\ ev' = Event(c, q, reply, out)
    /\ UNCHANGED <<keyGen, uniqueName, revCtr, rec, req, everOk, staleWrite>>
    /\ UNCHANGED lockVars
    /\ UNCHANGED cursorVars
    /\ UNCHANGED graphVars

(* ---------------------------------------------------------------------- *)
(* The named lock: get_lock, the lock backend, lock_and_load/_and_reload   *)
(* ---------------------------------------------------------------------- *)
LOCK_NAME_PREFIX == "arangodantic_"

\* Model.get_lock_name: prefix, collection name and key in one name; the
\* key of a record without one is formatted as None
get_lock_name(key) == [prefix |-> LOCK_NAME_PREFIX, coll |-> COLL, key |-> key]

LockNames == {get_lock_name(k) : k \in Keys \cup {None}}

\* no lock document of the name is stored
NoLock == "free"
NoScope == [op |-> "none", key |-> None, name |-> get_lock_name(None), exc |-> "none"]

\* variant: the insert is not checked against the unique index on the name
LockInsertNoUnique(name) == Ok(None, "")

\* acquire: INSERT {name, expiresAt} into the lock collection, whose unique
\* index on name rejects a second document of the same name
LockInsert(name) ==
    IF locks[name] # NoLock
    THEN Err("ArangoServerError", ERROR_ARANGO_UNIQUE_CONSTRAINT_VIOLATED)
    ELSE Ok(None, "")

\* variant: only the unique constraint violation counts as already locked
AcquireOutcomeUniqueOnly(reply, block) ==
    IF reply.st = "ok" THEN "True"
    ELSE IF reply.code = ERROR_ARANGO_UNIQUE_CONSTRAINT_VIOLATED
         THEN IF block THEN "sleep" ELSE "False"
         ELSE "raise"

\* acquire: True when the insert went through; on 1210 or 1200 False when
\* not blocking and another attempt after a sleep when blocking
AcquireOutcome(reply, block) ==
    IF reply.st = "ok" THEN "True"
    ELSE IF reply.code \in {ERROR_ARANGO_UNIQUE_CONSTRAINT_VIOLATED, ERROR_ARANGO_CONFLICT}
         THEN IF block THEN "sleep" ELSE "False"
         ELSE "raise"

\* a release that removes nothing
LockRemoveNothing(name) == locks

\* release: FOR l IN coll FILTER l.name == name REMOVE l
LockRemove(name) == [locks EXCEPT ![name] = NoLock]

\* the callers that have acquired the lock of the name and not yet released it
Users(name) ==
    {c \in Callers : pc[c] \in {"read", "body", "exit", "holding"} /\ scope[c].name = name}

\* variant: the record is read without waiting for the lock
ScopeNextReadFirst(loc, ok) ==
    IF loc = "get_lock" THEN "read"
    ELSE IF loc = "acquire" THEN (IF ok THEN "read" ELSE "sleep")
    ELSE IF loc = "sleep" THEN "acquire"
    ELSE IF loc = "read" THEN (IF ok THEN "body" ELSE "exit")
    ELSE IF loc = "body" THEN "exit"
    ELSE "idle"

\* the control flow of `async with get_lock(key): <read>; yield`
ScopeNext(loc, ok) ==
    IF loc = "get_lock" THEN "acquire"
    ELSE IF loc = "acquire" THEN (IF ok THEN "read" ELSE "sleep")
    ELSE IF loc = "sleep" THEN "acquire"
    ELSE IF loc = "read" THEN (IF ok THEN "body" ELSE "exit")
    ELSE IF loc = "body" THEN "exit"
    ELSE "idle"

\* variant: the lock is released only when the scope is left without an error
ReleaseOnExitOkOnly(exc) == exc = "none"

\* async with: __aexit__ runs release however the scope is left
ReleaseOnExit(exc) == TRUE

LockEvent(c, op, name, out) == [c |-> c, op |-> op, name |-> name, out |-> out]

persistVars == <<keyGen, uniqueName, docs, revCtr, req, deleted, staleWrite>>

\* variant: the lock of the name is built whatever the configuration
get_lock_unchecked(key) == Ret(get_lock_name(key))

\* get_lock(key): ConfigError unless CONF.lock is set, else the named lock
get_lock(key) ==
    IF ~lockConf THEN Raise("ConfigError", 0) ELSE Ret(get_lock_name(key))

\* lock_and_load(key) / lock_and_reload() up to get_lock: without a
\* configured lock ConfigError is raised before anything is acquired
Enter(c, op, key) ==
    /\ pc[c] = "idle"
    /\ trace' = [trace EXCEPT ![c] = <<>>]
    /\ IF get_lock(key).kind = "return"
       THEN /\ pc' = [pc EXCEPT ![c] = ScopeNext("get_lock", TRUE)]
            /\ scope' = [scope EXCEPT ![c] =
                    [op |-> op, key |-> key, name |-> get_lock_name(key), exc |-> "none"]]
            /\ ev' = NoEv
       ELSE /\ pc' = pc
            /\ scope' = [scope EXCEPT ![c] = NoScope]
            /\ ev' = LockEvent(c, op, get_lock_name(key), get_lock(key))
    /\ UNCHANGED <<lockConf, locks, ttlFired, rec, everOk>>
    /\ UNCHANGED persistVars
    /\ UNCHANGED cursorVars
    /\ UNCHANGED graphVars

lock_and_load(c, key) == Enter(c, "lock_and_load", key)
lock_and_reload(c) == Enter(c, "lock_and_reload", rec[c].key_)

\* __aenter__: one attempt of the blocking acquire
Acquire(c) ==
    /\ pc[c] = "acquire"
    /\ LET reply == LockInsert(scope[c].name)
           res == AcquireOutcome(reply, TRUE)
       IN
       /\ locks' = IF res = "True" THEN [locks EXCEPT ![scope[c].name] = c] ELSE locks
       /\ pc' = [pc EXCEPT ![c] = ScopeNext("acquire", res = "True")]
       /\ trace' = [trace EXCEPT ![c] = IF res = "True" THEN Append(@, "acquire") ELSE @]
    /\ ev' = NoEv
    /\ UNCHANGED <<lockConf, scope, ttlFired, rec, everOk>>
    /\ UNCHANGED persistVars
    /\ UNCHANGED cursorVars
    /\ UNCHANGED graphVars

\* sleep(POLL_DELAY) is over
Wake(c) ==
    /\ pc[c] = "sleep"
    /\ pc' = [pc EXCEPT ![c] = ScopeNext("sleep", TRUE)]
    /\ ev' = NoEv
    /\ UNCHANGED <<lockConf, locks, scope, trace, ttlFired, rec, everOk>>
    /\ UNCHANGED persistVars
    /\ UNCHANGED cursorVars
    /\ UNCHANGED graphVars

\* the read inside the scope: cls.load(key) or self.reload()
ScopeRead(op, key, r) ==
    IF op = "lock_and_reload" /\ ~ReloadHasKey(r) THEN Missing ELSE DriverGet(key)

Read(c) ==
    /\ pc[c] = "read"
    /\ LET reply == ScopeRead(scope[c].op, scope[c].key, rec[c])
           out == LoadOutcome(reply)
           ok == out.kind = "return"
       IN
       /\ rec' = [rec EXCEPT ![c] = IF ok THEN LoadRecord(reply) ELSE @]
       /\ everOk' = [everOk EXCEPT ![c] = IF ok THEN TRUE ELSE @]
       /\ scope' = [scope EXCEPT ![c].exc = IF ok THEN "none" ELSE out.exc]
       /\ pc' = [pc EXCEPT ![c] = ScopeNext("read", ok)]
    /\ trace' = [trace EXCEPT ![c] = Append(@, "read")]
    /\ ev' = NoEv
    /\ UNCHANGED <<lockConf, locks, ttlFired>>
    /\ UNCHANGED persistVars
    /\ UNCHANGED cursorVars
    /\ UNCHANGED graphVars

\* the body of the caller's `async with` block runs to its end or raises
Body(c, raises) ==
    /\ pc[c] = "body"
    /\ scope' = [scope EXCEPT ![c].exc = IF raises THEN "BodyError" ELSE "none"]
    /\ pc' = [pc EXCEPT ![c] = ScopeNext("body", ~raises)]
    /\ trace' = [trace EXCEPT ![c] = Append(@, "body")]
    /\ ev' = NoEv
    /\ UNCHANGED <<lockConf, locks, ttlFired, rec, everOk>>
    /\ UNCHANGED persistVars
    /\ UNCHANGED cursorVars
    /\ UNCHANGED graphVars

\* the lock is unused once its last user has released it
TtlAfterRelease(c, name) ==
    IF Users(name) \ {c} = {} THEN [ttlFired EXCEPT ![name] = FALSE] ELSE ttlFired

\* __aexit__: release by name, then the operation returns or re-raises
Release(c) ==
    /\ pc[c] = "exit"
    /\ IF ReleaseOnExit(scope[c].exc)
       THEN /\ locks' = LockRemove(scope[c].name)
            /\ trace' = [trace EXCEPT ![c] = Append(@, "release")]
       ELSE UNCHANGED <<locks, trace>>
    /\ ttlFired' = TtlAfterRelease(c, scope[c].name)
    /\ pc' = [pc EXCEPT ![c] = ScopeNext("exit", TRUE)]
    /\ ev' = LockEvent(c, scope[c].op, scope[c].name,
                       IF scope[c].exc = "none" THEN Ret(None) ELSE Raise(scope[c].exc, 0))
    /\ UNCHANGED <<lockConf, scope, rec, everOk>>
    /\ UNCHANGED persistVars
    /\ UNCHANGED cursorVars
    /\ UNCHANGED graphVars

\* get_lock(key).acquire(block=False) by a caller outside any scope
TryLock(c, key) ==
    /\ pc[c] = "idle"
    /\ LET name == get_lock_name(key)
           res == AcquireOutcome(LockInsert(name), FALSE)
       IN
       IF get_lock(key).kind = "return"
       THEN /\ locks' = IF res = "True" THEN [locks EXCEPT ![name] = c] ELSE locks
            /\ pc' = [pc EXCEPT ![c] = IF res = "True" THEN "holding" ELSE "idle"]
            /\ scope' = [scope EXCEPT ![c] =
                    IF res = "True"
                    THEN [op |-> "lock", key |-> key, name |-> name, exc |-> "none"]
                    ELSE @]
            /\ ev' = LockEvent(c, "acquire", name, Ret(res))
       ELSE /\ UNCHANGED <<locks, pc, scope>>
            /\ ev' = LockEvent(c, "get_lock", name, get_lock(key))
    /\ UNCHANGED <<lockConf, trace, ttlFired, rec, everOk>>
    /\ UNCHANGED persistVars
    /\ UNCHANGED cursorVars
    /\ UNCHANGED graphVars

\* release() of the lock the caller acquired itself
Unlock(c) ==
    /\ pc[c] = "holding"
    /\ locks' = LockRemove(scope[c].name)
    /\ ttlFired' = TtlAfterRelease(c, scope[c].name)
    /\ pc' = [pc EXCEPT ![c] = "idle"]
    /\ ev' = LockEvent(c, "release", scope[c].name, Ret(None))
    /\ UNCHANGED <<lockConf, scope, trace, rec, everOk>>
    /\ UNCHANGED persistVars
    /\ UNCHANGED cursorVars
    /\ UNCHANGED graphVars

\* the TTL index on expiresAt removes a lock document DOCUMENT_TTL seconds
\* after its insert, whatever its acquirer is doing by then
Expire(name) ==
    /\ locks[name] # NoLock
    /\ locks' = LockRemove(name)
    /\ ttlFired' = [ttlFired EXCEPT ![name] = TRUE]
    /\ ev' = NoEv
    /\ UNCHANGED <<lockConf, pc, scope, trace, rec, everOk>>
    /\ UNCHANGED persistVars
    /\ UNCHANGED cursorVars
    /\ UNCHANGED graphVars

\* no caller is in a scope and no lock document is stored
\* no query has run: the store has no cursor and no cursor object exists
NoRows == <<-1>>
NoCursor == [st |-> "none"]
NoCursors ==
    /\ cursors = <<>>
    /\ cursor = <<>>

\* the collections of the edges and the graphs that declare them
EdgeColls == {"relations", "secondary_relations"}
EdgeKeys == {"e1", "e2"}
GraphNames == {"relation_graph", "secondary_relation_graph"}
NoEdge == [rev |-> "", name |-> "", from |-> NoId, to |-> NoId]
NoEdgeHandle == [coll |-> None]

\* no graph is defined, there is no edge collection and no edge handle
NoGraphs ==
    /\ graphs = {}
    /\ edges = <<>>
    /\ edge = <<>>

LockIdle ==
    /\ locks = [n \in LockNames |-> NoLock]
    /\ pc = [c \in Callers |-> "idle"]
    /\ scope = [c \in Callers |-> NoScope]
    /\ trace = [c \in Callers |-> <<>>]
    /\ ttlFired = [n \in LockNames |-> FALSE]

(* ---------------------------------------------------------------------- *)
(* Specification of the persistence state machine                          *)
(* ---------------------------------------------------------------------- *)
\* the caller takes the result of the call that has just finished
Observe ==
    /\ ev # NoEv
    /\ ev' = NoEv
    /\ UNCHANGED <<keyGen, uniqueName, docs, revCtr, rec, req, everOk, deleted, staleWrite>>
    /\ UNCHANGED lockVars
    /\ UNCHANGED cursorVars
    /\ UNCHANGED graphVars

Init ==
    /\ keyGen \in BOOLEAN
    /\ uniqueName = TRUE
    /\ docs = [k \in Keys |-> NoDoc]
    /\ revCtr = 0
    /\ rec = [c \in Callers |-> [key_ |-> None, rev_ |-> "", name |-> "a"]]
    /\ req = [c \in Callers |-> NoReq]
    /\ ev = NoEv
    /\ everOk = [c \in Callers |-> FALSE]
    /\ deleted = [c \in Callers |-> 0]
    /\ staleWrite = FALSE
    /\ lockConf = TRUE
    /\ LockIdle
    /\ NoCursors
    /\ NoGraphs

Next ==
    \/ Observe
    \/ \E c \in Callers :
        \/ \E k \in Keys \cup {None} : Construct(c, k)
        \/ \E n \in Names : SetName(c, n)
        \/ \E via \in {"model", "graph"} : SaveBegin(c, via)
        \/ SaveComplete(c)
        \/ \E k \in Keys : Load(c, k)
        \/ Reload(c)
        \/ \E ig \in BOOLEAN : Delete(c, ig)

Spec == Init /\ [][Next]_vars

(* ---------------------------------------------------------------------- *)
(* Specification of the lock scopes                                        *)
(* ---------------------------------------------------------------------- *)
\* the handles the callers start with: a loaded record of the stored
\* document, or a new record without a key
StoredRec == [key_ |-> "k1", rev_ |-> RevName[1], name |-> "a"]
NewRec == [key_ |-> None, rev_ |-> "", name |-> "a"]

\* one document is stored under k1 and none under k2
InitLock ==
    /\ keyGen = FALSE
    /\ uniqueName = TRUE
    /\ docs = [k \in Keys |-> IF k = "k1" THEN [rev |-> RevName[1], name |-> "a"] ELSE NoDoc]
    /\ revCtr = 1
    /\ rec \in [Callers -> {StoredRec, NewRec}]
    /\ req = [c \in Callers |-> NoReq]
    /\ ev = NoEv
    /\ everOk = [c \in Callers |-> rec[c].rev_ # ""]
    /\ deleted = [c \in Callers |-> 0]
    /\ staleWrite = FALSE
    /\ lockConf \in BOOLEAN
    /\ LockIdle
    /\ NoCursors
    /\ NoGraphs

NextLock ==
    \/ \E n \in LockNames : Expire(n)
    \/ \E c \in Callers :
        \/ \E k \in Keys : lock_and_load(c, k)
        \/ lock_and_reload(c)
        \/ Acquire(c)
        \/ Wake(c)
        \/ Read(c)
        \/ \E raises \in BOOLEAN : Body(c, raises)
        \/ Release(c)
        \/ \E k \in Keys \cup {None} : TryLock(c, k)
        \/ Unlock(c)

SpecLock == InitLock /\ [][NextLock]_vars

(* ---------------------------------------------------------------------- *)
(* Properties of the persistence state machine                             *)
(* ---------------------------------------------------------------------- *)
\* the step finishes a call of op, by caller ev'.c
Finishes(op) == ev'.op = op
\* the handle of the call that the step finishes, as it was when the call
\* started (a save carries it in its request), and as it is afterwards
PreRec == IF ev'.op = "save" THEN req[ev'.c].pre ELSE rec[ev'.c]
PostRec == rec'[ev'.c]
\* the document of the call was stored before / is stored after the step
ExistedBefore == ev'.key # None /\ docs[ev'.key] # NoDoc
ExistsAfter == ev'.key # None /\ docs'[ev'.key] # NoDoc

\* C1: the revision of a handle is empty exactly when no store write or load
\* has succeeded for it; a failed save leaves a Transient record without a
\* revision and a successful save always sets one.
C1_RevisionIffPersisted ==
    /\ [](\A c \in Callers : (rec[c].rev_ = "") <=> ~everOk[c])
    /\ [][Finishes("save") =>
            /\ (ev'.out.kind = "raise" /\ PreRec.rev_ = "") => PostRec.rev_ = ""
            /\ ev'.out.kind = "return" => PostRec.rev_ # ""]_vars

C1_Witness ==
    /\ ev.op = "save" /\ ev.out.kind = "raise" /\ ev.branch = "insert"
    /\ rec[ev.c].rev_ = ""
    /\ \E c \in Callers : everOk[c] /\ rec[c].rev_ # ""

\* C2: save on a Transient record issues an insert and on success takes the
\* key and the revision of the store's response, which the store then holds
\* under that key; load of a stored key returns a record with that key.
C2_InsertCapturesKeyAndRev ==
    [][/\ (Finishes("save") /\ PreRec.rev_ = "") => ev'.branch = "insert"
       /\ (Finishes("save") /\ ev'.branch = "insert" /\ ev'.out.kind = "return") =>
            /\ PostRec.key_ = ev'.reply.key
            /\ PostRec.rev_ = ev'.reply.rev
            /\ PostRec.rev_ # ""
            /\ docs'[PostRec.key_].rev = PostRec.rev_
            /\ \A k \in Keys \ {PostRec.key_} : docs'[k] = docs[k]
       /\ (Finishes("load") /\ ExistedBefore) =>
            /\ ev'.out.kind = "return"
            /\ PostRec.key_ = ev'.key]_vars

C2_Witness ==
    /\ ev.op = "load" /\ ev.out.kind = "return"
    /\ \E c \in Callers \ {ev.c} :
         /\ everOk[c]
         /\ rec[c].key_ = rec[ev.c].key_
         /\ rec[c].rev_ = rec[ev.c].rev_

\* C3: the store never accepts an update that presents a stale revision; the
\* save that presents one gets the store's revision error unchanged, the
\* stored document is left as it was and rev_ of the stale handle is kept.
C3_StaleSaveRejected ==
    /\ [](~staleWrite)
    /\ [][(/\ Finishes("save") /\ ev'.branch = "update"
           /\ ExistedBefore /\ docs[ev'.key].rev # PreRec.rev_) =>
            /\ ev'.out = Raise("DocumentRevisionError", ERROR_ARANGO_CONFLICT)
            /\ PostRec.rev_ = PreRec.rev_
            /\ docs' = docs]_vars

C3_Witness ==
    /\ ev.op = "save" /\ ev.branch = "update"
    /\ ev.out.exc = "DocumentRevisionError"
    /\ \E c \in Callers \ {ev.c} :
         /\ rec[c].key_ = rec[ev.c].key_
         /\ docs[rec[c].key_].rev = rec[c].rev_
         /\ rec[ev.c].rev_ # rec[c].rev_

\* C4: a save on a Transient record that the store rejects with a uniqueness
\* violation fails with UniqueConstraintError and leaves key_, rev_ and the
\* payload as they were before the call.
C4_FailedInsertNoStateChange ==
    [][(/\ Finishes("save") /\ ev'.branch = "insert"
        /\ ev'.reply.code = ERROR_ARANGO_UNIQUE_CONSTRAINT_VIOLATED) =>
            /\ ev'.out.exc = "UniqueConstraintError"
            /\ PostRec = PreRec]_vars

\* C5: a save on a Persisted record that the store rejects with a uniqueness
\* violation fails with UniqueConstraintError, never with the raw store error.
C5_UpdateUniqueTranslated ==
    ev.op = "save" /\ ev.branch = "update"
        /\ ev.reply.code = ERROR_ARANGO_UNIQUE_CONSTRAINT_VIOLATED
    => ev.out.exc = "UniqueConstraintError"

\* C9 as stated, for a Persisted handle: delete has exactly three outcomes,
\* True for a removed document, ModelNotFoundError for an absent one without
\* ignore_missing, False for an absent one with ignore_missing.
C9_ExactlyThreeOutcomes ==
    [][(Finishes("delete") /\ PreRec.key_ # None /\ PreRec.rev_ # "") =>
            \/ ev'.out = Ret("True") /\ ExistedBefore /\ ~ExistsAfter
            \/ ev'.out = Raise("ModelNotFoundError", 0) /\ ~ExistedBefore /\ ~ev'.ignore
            \/ ev'.out = Ret("False") /\ ~ExistedBefore /\ ev'.ignore]_vars

\* C9 amended: delete returns True exactly when the document existed and was
\* removed by the call; for a record with a key and no stored document it
\* raises ModelNotFoundError without ignore_missing and returns False with
\* it; every other failure (a stale revision, a record without a key) is
\* raised as an error and never reported as a boolean.
C9_DeleteOutcomes ==
    [][Finishes("delete") =>
        /\ (ev'.out = Ret("True")) <=> (ExistedBefore /\ ~ExistsAfter)
        /\ (ev'.out = Ret("False")) <=>
               (PreRec.key_ # None /\ ~ExistedBefore /\ ev'.ignore)
        /\ (ev'.out = Raise("ModelNotFoundError", 0)) <=>
               (PreRec.key_ # None /\ ~ExistedBefore /\ ~ev'.ignore)
        /\ (ExistedBefore /\ ExistsAfter) =>
               ev'.out = Raise("DocumentRevisionError", ERROR_ARANGO_CONFLICT)
        /\ PreRec.key_ = None => ev'.out.kind = "raise"
        /\ ev'.out.kind = "return" => ev'.out.value \in {"True", "False"}]_vars

C9_Witness ==
    /\ ev.op = "delete" /\ ev.ignore
    /\ ev.out = Raise("DocumentRevisionError", ERROR_ARANGO_CONFLICT)
    /\ rec[ev.c].rev_ # ""
    /\ docs[rec[ev.c].key_] # NoDoc

\* C10: once a handle has deleted its document, every further
\* delete(ignore_missing=True) on it, while the document stays deleted,
\* returns False, raises nothing and leaves the store as it was.
C10_DeleteIdempotent ==
    [][(/\ Finishes("delete") /\ ev'.ignore
        /\ deleted[ev'.c] >= 1 /\ ~ExistedBefore) =>
            /\ ev'.out = Ret("False")
            /\ docs' = docs]_vars

C10_Witness ==
    /\ ev.op = "delete" /\ ev.ignore
    /\ deleted[ev.c] >= 2
    /\ ev.out = Ret("False")

(* ---------------------------------------------------------------------- *)
(* Properties of the lock scopes                                           *)
(* ---------------------------------------------------------------------- *)
\* the caller has acquired the lock of the name in lock_and_load or
\* lock_and_reload and has not left the scope yet
InScope(c, name) == pc[c] \in {"read", "body", "exit"} /\ scope[c].name = name
\* the step finishes a non-blocking acquire
Probes == ev'.op = "acquire"
\* the step leaves a scope that had been entered
LeavesScope == ev'.op \in {"lock_and_load", "lock_and_reload"} /\ ev'.out.exc # "ConfigError"
IsPrefix(s, t) == Len(s) <= Len(t) /\ \A i \in 1..Len(s) : s[i] = t[i]

\* C6 as stated: while a caller is inside lock_and_load or lock_and_reload,
\* every non-blocking acquire of the same lock by another caller returns
\* False.
C6_ProbeFalseWhileInScope ==
    [][(Probes /\ \E c \in Callers \ {ev'.c} : InScope(c, ev'.name)) =>
            ev'.out = Ret("False")]_vars

\* C6 amended: while a caller is inside lock_and_load or lock_and_reload and
\* the TTL has removed no document of that lock since the lock was last
\* unused, every non-blocking acquire of the same lock by another caller
\* returns False; the step that leaves the scope leaves no lock document of
\* the name behind, and a non-blocking acquire that finds none returns True.
C6_LockExcludes ==
    [][/\ (Probes /\ ~ttlFired[ev'.name]
             /\ \E c \in Callers \ {ev'.c} : InScope(c, ev'.name)) =>
            ev'.out = Ret("False")
       /\ LeavesScope => locks'[ev'.name] = NoLock
       /\ (Probes /\ locks[ev'.name] = NoLock) =>
            /\ ev'.out = Ret("True")
            /\ locks'[ev'.name] = ev'.c]_vars

C6_Witness ==
    /\ ev.op = "acquire" /\ ev.out = Ret("False")
    /\ ~ttlFired[ev.name]
    /\ trace[ev.c] = <<"acquire", "read", "body", "release">>
    /\ \E c \in Callers \ {ev.c} : pc[c] = "body" /\ scope[c].name = ev.name

\* C7: a caller that is outside lock_and_load and lock_and_reload owns no
\* lock document, and the step that leaves a scope, with or without an
\* error of the read or the body, has released the lock of the scope.
C7_LockReleasedOnExit ==
    /\ [](\A c \in Callers : pc[c] = "idle" => \A n \in LockNames : locks[n] # c)
    /\ [][\A c \in Callers : (pc[c] = "exit" /\ pc'[c] = "idle") =>
            /\ locks'[scope[c].name] = NoLock
            /\ trace'[c] = Append(trace[c], "release")
            /\ ev'.out = IF scope[c].exc = "none" THEN Ret(None)
                         ELSE Raise(scope[c].exc, 0)]_vars

C7_Witness ==
    /\ \A c \in Callers : pc[c] = "idle"
    /\ \A n \in LockNames : locks[n] = NoLock
    /\ \E c1, c2 \in Callers :
         /\ scope[c1].exc = "BodyError"
         /\ trace[c1] = <<"acquire", "read", "body", "release">>
         /\ scope[c2].op = "lock_and_reload" /\ scope[c2].key = None
         /\ scope[c2].exc = "ModelNotFoundError"
         /\ trace[c2] = <<"acquire", "read", "release">>

\* C8: the events of a scope come in the order acquire, read, body, release
\* (without the body when the read fails): the read starts after the
\* caller's acquire has returned and before its release, with the caller's
\* lock document stored unless the TTL has removed one, and the body starts
\* after a read that succeeded.
C8_AcquireReadBodyRelease ==
    /\ [](\A c \in Callers :
            \/ IsPrefix(trace[c], <<"acquire", "read", "body", "release">>)
            \/ trace[c] = <<"acquire", "read", "release">>)
    /\ [][\A c \in Callers :
            /\ (pc[c] = "read" /\ pc'[c] # "read") =>
                 /\ trace[c] = <<"acquire">>
                 /\ ~ttlFired[scope[c].name] => locks[scope[c].name] = c
            /\ (pc[c] = "body" /\ pc'[c] # "body") =>
                 /\ trace[c] = <<"acquire", "read">>
                 /\ scope[c].exc = "none"
                 /\ rec[c].key_ = scope[c].key /\ rec[c].rev_ = docs[scope[c].key].rev]_vars

C8_Witness ==
    /\ ev.op = "lock_and_load" /\ ev.out = Ret(None)
    /\ trace[ev.c] = <<"acquire", "read", "body", "release">>
    /\ rec[ev.c].key_ = scope[ev.c].key

(* ---------------------------------------------------------------------- *)
(* Specification of reload on arbitrary handles                            *)
(* ---------------------------------------------------------------------- *)
\* the handles a caller can hold: any key, also none or an empty one, with
\* or without a revision
Handles ==
    [key_ : Keys \cup {None, ""}, rev_ : {"", RevName[1]}, name : Names]

\* a document may be stored under k1; k2 has none
InitReload ==
    /\ keyGen = FALSE
    /\ uniqueName = TRUE
    /\ docs \in {[k \in Keys |-> NoDoc],
                 [k \in Keys |-> IF k = "k1" THEN [rev |-> RevName[1], name |-> "b"]
                                 ELSE NoDoc]}
    /\ revCtr = 1
    /\ rec \in [Callers -> Handles]
    /\ req = [c \in Callers |-> NoReq]
    /\ ev = NoEv
    /\ everOk = [c \in Callers |-> rec[c].rev_ # ""]
    /\ deleted = [c \in Callers |-> 0]
    /\ staleWrite = FALSE
    /\ lockConf = TRUE
    /\ LockIdle
    /\ NoCursors
    /\ NoGraphs

NextReload ==
    \/ Observe
    \/ \E c \in Callers : Reload(c)

SpecReload == InitReload /\ [][NextReload]_vars

\* C11: reload on a record whose key is unset or empty raises
\* ModelNotFoundError without a store request and changes no field; reload
\* on a record whose key has no stored document raises ModelNotFoundError
\* too and changes no field, and neither changes the store.
C11_ReloadWithoutDocument ==
    [][Finishes("reload") =>
        /\ (PreRec.key_ \in {None, ""}) =>
             /\ ev'.branch = "nokey"
             /\ ev'.out = Raise("ModelNotFoundError", 0)
             /\ PostRec = PreRec
        /\ (PreRec.key_ \notin {None, ""} /\ ~ExistedBefore) =>
             /\ ev'.branch = "get"
             /\ ev'.out = Raise("ModelNotFoundError", 0)
             /\ PostRec = PreRec
        /\ ev'.out.kind = "raise" => docs' = docs]_vars

C11_Witness ==
    /\ ev.op = "reload" /\ ev.branch = "nokey" /\ ev.key = ""
    /\ ev.out = Raise("ModelNotFoundError", 0)
    /\ rec[ev.c].rev_ # ""
    /\ \E c \in Callers \ {ev.c} : rec[c].key_ = "k1" /\ rec[c].rev_ = docs["k1"].rev

(* ---------------------------------------------------------------------- *)
(* The query compiler: split_field, build_filters, build_sort              *)
(* ---------------------------------------------------------------------- *)
\* longest field path, in pieces
MaxPath == 5
\* longest sort specification given to build_sort alone, in pairs
MaxSort == 3

\* A field path is a string; it is modelled as the sequence of its pieces,
\* each a dot or a piece of text without dots.
DOT == "."
Pieces == {"name", "x", DOT}
Paths == UNION {[1..n -> Pieces] : n \in 0..MaxPath}

\* Query text is modelled as the sequence of its tokens: literal text of the
\* program, caller data copied into the text, or a reference @bind_var.
Lit(t) == [tok |-> "lit", text |-> t]
Ref(bind_var) == [tok |-> "ref", var |-> bind_var]

\* the names of bind variables: f"field_{i}", f"{prefix}_{j}" for the j-th
\* part of a path, f"{prefix}_{token}" for the operand of an operator
Prefix(pre, i) == [pre |-> pre, i |-> i]
PartVar(prefix, j) == [pre |-> prefix.pre, i |-> prefix.i, part |-> j, token |-> ""]
TokVar(prefix, token) == [pre |-> prefix.pre, i |-> prefix.i, part |-> -1, token |-> token]

\* values a caller can pass: text, a mapping (its items in order), a Record
Str(s) == [v |-> s, kind |-> "str"]
\* a part of a field path, as bound to its variable
Text(pieces) == [kind |-> "text", pieces |-> pieces]
Dict(items) == [kind |-> "dict", items |-> items]
ModelValue(key) == [kind |-> "model", key_ |-> key]
\* isinstance(expr, Dict)
IsDict(v) == v.kind = "dict"
\* isinstance(value, Model)
IsModel(v) == v.kind = "model"

RECURSIVE Collapse(_)
\* ONE_OR_MORE_DOTS_PATTERN.sub(".", name)
Collapse(s) ==
    IF Len(s) <= 1 THEN s
    ELSE IF s[1] = DOT /\ s[2] = DOT THEN Collapse(Tail(s))
    ELSE <<s[1]>> \o Collapse(Tail(s))

RECURSIVE StripLeft(_)
StripLeft(s) == IF s # <<>> /\ s[1] = DOT THEN StripLeft(Tail(s)) ELSE s

RECURSIVE StripRight(_)
StripRight(s) ==
    IF s # <<>> /\ s[Len(s)] = DOT THEN StripRight(SubSeq(s, 1, Len(s) - 1)) ELSE s

\* variant: only leading dots are skipped
StripLeading(s) == StripLeft(s)

\* name.strip(".")
Strip(s) == StripRight(StripLeft(s))

RECURSIVE Split(_)
\* name.split("."): the text between the dots, empty texts included
Split(s) ==
    IF \A i \in 1..Len(s) : s[i] # DOT THEN <<s>>
    ELSE LET i == CHOOSE j \in 1..Len(s) : s[j] = DOT /\ \A h \in 1..(j - 1) : s[h] # DOT
         IN <<SubSeq(s, 1, i - 1)>> \o Split(SubSeq(s, i + 1, Len(s)))

RECURSIVE JoinDots(_)
\* ".".join(new_parts)
JoinDots(parts) ==
    IF parts = <<>> THEN <<>>
    ELSE IF Len(parts) = 1 THEN <<parts[1]>>
    ELSE <<parts[1], Lit(DOT)>> \o JoinDots(Tail(parts))

\* variant: the parts of the name are written into the expression
split_field_inline(name, prefix) ==
    LET parts == Split(Strip(Collapse(name))) IN
    [str |-> JoinDots([i \in 1..Len(parts) |-> [tok |-> "inline", pieces |-> parts[i]]]),
     bind_vars |-> [v \in {PartVar(prefix, i - 1) : i \in 1..Len(parts)} |->
                        Text(parts[v.part + 1])]]

\* split_field: one bind variable per part of the name, numbered from 0
split_field(name, prefix) ==
    LET parts == Split(Strip(Collapse(name))) IN
    [str |-> JoinDots([i \in 1..Len(parts) |-> Ref(PartVar(prefix, i - 1))]),
     bind_vars |-> [v \in {PartVar(prefix, i - 1) : i \in 1..Len(parts)} |->
                        Text(parts[v.part + 1])]]

\* the table of supported operators inside build_filters, with the token
\* used in the name of the operand's bind variable
comparison_operators ==
    [op \in {"<", "<=", ">", ">=", "!=", "=="} |->
        CASE op = "<" -> "lt" [] op = "<=" -> "lte" [] op = ">" -> "gt"
          [] op = ">=" -> "gte" [] op = "!=" -> "ne" [] op = "==" -> "eq"]

NoBindVars == [v \in {} |-> Str("")]
Compiled(filter_list, bind_vars) ==
    [err |-> "none", bind_vars |-> bind_vars, filter_list |-> filter_list]
Failed(acc, err) == [acc EXCEPT !.err = err]

\* if isinstance(value, Model): value = value.id_
Operand(value) == IF IsModel(value) THEN id_(value) ELSE value

\* variant: a value that is not a mapping is taken as it is
ExprTermsUnwrapped(expr) == IF IsDict(expr) THEN expr.items ELSE <<>>

\* if not isinstance(expr, Dict): expr = {"==": expr}
ExprTerms(expr) == IF IsDict(expr) THEN expr.items ELSE <<<<"==", expr>>>>

\* variant: a term with an operator outside the table is left out
UnsupportedSkipped(acc) == acc

\* raise NotImplementedError(f"Support for '{operator}' not implemented")
Unsupported(acc) == Failed(acc, "NotImplementedError")

RECURSIVE FilterTerms(_, _, _, _, _)
\* for operator, value in expr.items(): one fragment and the bind variables
\* of the path and of the operand
FilterTerms(instance_name, i, field, terms, acc) ==
    IF terms = <<>> \/ acc.err # "none" THEN acc
    ELSE LET operator == terms[1][1]
             value == terms[1][2]
         IN
         IF operator \notin DOMAIN comparison_operators
         THEN FilterTerms(instance_name, i, field, Tail(terms), Unsupported(acc))
         ELSE LET bind_var_prefix == Prefix("field", i)
                  sf == split_field(field, bind_var_prefix)
                  value_bind_var == TokVar(bind_var_prefix, comparison_operators[operator])
                  fragment == <<Lit(instance_name), Lit(DOT)>> \o sf.str
                                \o <<Lit(" "), Lit(operator), Lit(" "), Ref(value_bind_var)>>
              IN FilterTerms(instance_name, i, field, Tail(terms),
                    Compiled(Append(acc.filter_list, fragment),
                             (value_bind_var :> Operand(value))
                                @@ sf.bind_vars @@ acc.bind_vars))

RECURSIVE FilterEntries(_, _, _, _)
\* for i, (field, expr) in enumerate(filters.items())
FilterEntries(instance_name, i, entries, acc) ==
    IF entries = <<>> \/ acc.err # "none" THEN acc
    ELSE FilterEntries(instance_name, i + 1, Tail(entries),
            FilterTerms(instance_name, i, entries[1][1], ExprTerms(entries[1][2]), acc))

\* build_filters: filters is the sequence of the mapping's items
build_filters(filters, instance_name) ==
    FilterEntries(instance_name, 0, filters, Compiled(<<>>, NoBindVars))

\* arangodantic.directions.DIRECTIONS: the sort directions of the query language
DIRECTIONS == {"ASC", "DESC"}

RECURSIVE JoinWith(_, _)
\* sep.join(list) of token sequences
JoinWith(list, sep) ==
    IF list = <<>> THEN <<>>
    ELSE IF Len(list) = 1 THEN list[1]
    ELSE list[1] \o sep \o JoinWith(Tail(list), sep)

\* variant: only the direction of the first pair is checked
InvalidDirectionFirst(i, direction) == i = 0 /\ direction \notin DIRECTIONS

\* if direction not in DIRECTIONS
InvalidDirection(i, direction) == direction \notin DIRECTIONS

\* f"Invalid sort direction '{direction}' for field {field}"
InvalidDirectionMessage(field, direction) == [field |-> field, direction |-> direction]

RECURSIVE SortEntries(_, _, _, _)
\* for i, (field, direction) in enumerate(sort)
SortEntries(instance_name, i, sort, acc) ==
    IF sort = <<>> \/ acc.err # "none" THEN acc
    ELSE LET field == sort[1][1]
             direction == sort[1][2]
         IN
         IF InvalidDirection(i, direction)
         THEN [err |-> "ValueError", bind_vars |-> acc.bind_vars,
               filter_list |-> acc.filter_list,
               message |-> InvalidDirectionMessage(field, direction)]
         ELSE LET sf == split_field(field, Prefix("sort", i))
                  term == <<Lit(instance_name), Lit(DOT)>> \o sf.str
                            \o <<Lit(" "), Lit(direction)>>
              IN SortEntries(instance_name, i + 1, Tail(sort),
                    Compiled(Append(acc.filter_list, term), sf.bind_vars @@ acc.bind_vars))

\* build_sort: "SORT a, b" or the empty string, and the bind variables
build_sort(instance_name, sort) ==
    LET r == SortEntries(instance_name, 0, sort, Compiled(<<>>, NoBindVars)) IN
    IF r.err # "none" THEN [err |-> r.err, message |-> r.message]
    ELSE
    [err |-> r.err,
     bind_vars |-> r.bind_vars,
     sort_lst |-> r.filter_list,
     sort_str |-> IF r.filter_list = <<>> THEN <<>>
                  ELSE <<Lit("SORT ")>> \o JoinWith(r.filter_list, <<Lit(", ")>>)]

\* Optional[int] = None
NoInt == -1
IntTok(n) == [v |-> n, tok |-> "int"]
COLLECTION_VAR == [pre |-> "@collection", i |-> 0, part |-> -1, token |-> ""]

\* variant: an offset without a limit is ignored
OffsetWithoutLimitIgnored(limit, offset) == FALSE

\* if offset and limit is None
OffsetWithoutLimit(limit, offset) == offset # NoInt /\ offset # 0 /\ limit = NoInt

\* find up to the store call: the query text and its bind variables (with the
\* clauses the text was assembled from), or the error raised before any request
CompileFind(filters, limit, offset, sort) ==
    LET instance_name == "i"
        bf == build_filters(filters, instance_name)
        filter_str == IF bf.filter_list = <<>> THEN <<>>
                      ELSE <<Lit("FILTER ")>> \o JoinWith(bf.filter_list, <<Lit(" AND ")>>)
        limit_str == IF limit # NoInt
                     THEN <<Lit("LIMIT "), IntTok(IF offset = NoInt THEN 0 ELSE offset),
                            Lit(", "), IntTok(limit)>>
                     ELSE <<>>
        bs == build_sort(instance_name, sort)
        query == <<Lit("FOR "), Lit(instance_name), Lit(" IN "), Ref(COLLECTION_VAR)>>
                    \o filter_str \o bs.sort_str \o limit_str
                    \o <<Lit("RETURN "), Lit(instance_name)>>
    IN
    IF bf.err # "none" THEN [err |-> bf.err, at |-> "build_filters"]
    ELSE IF OffsetWithoutLimit(limit, offset) THEN [err |-> "ValueError", at |-> "offset"]
    ELSE IF bs.err # "none" THEN [err |-> bs.err, at |-> "build_sort"]
    ELSE [err |-> "none",
          bind_vars |-> (COLLECTION_VAR :> Str(COLL)) @@ bs.bind_vars @@ bf.bind_vars,
          filter_list |-> bf.filter_list, sort_lst |-> bs.sort_lst,
          limit |-> limit, offset |-> offset, query |-> query]

\* ---------------------------------------------------------------------------
\* The store's query execution (aql.execute), on the documents of the collection
\* ---------------------------------------------------------------------------

Null == [kind |-> "null"]

\* the bind variables that a clause refers to, in order
ClauseVars(clause) ==
    LET refs == SelectSeq(clause, LAMBDA t : t.tok = "ref") IN
    [n \in 1..Len(refs) |-> refs[n].var]

\* the attribute of the stored document k that an attribute path names: the
\* documents have the attribute "name" at the top level and no nested ones
Attribute(k, path) ==
    IF path = <<Text(<<"name">>)>> THEN Str(docs[k].name) ELSE Null

\* the store's order of values: null, then strings, then arrays and objects
Rank(v) ==
    IF v = Null THEN 0
    ELSE IF v = Str("a") THEN 1
    ELSE IF v = Str("b") THEN 2
    ELSE 3

Compare(operator, l, r) ==
    IF operator = "==" THEN l = r
    ELSE IF operator = "!=" THEN l # r
    ELSE IF operator = "<" THEN Rank(l) < Rank(r)
    ELSE IF operator = "<=" THEN Rank(l) <= Rank(r)
    ELSE IF operator = ">" THEN Rank(l) > Rank(r)
    ELSE Rank(l) >= Rank(r)

\* FILTER i.@p0.@p1 <operator> @value
FilterHolds(k, clause, bind_vars) ==
    LET vs == ClauseVars(clause)
        path == [n \in 1..(Len(vs) - 1) |-> bind_vars[vs[n]]]
        operator == clause[Len(clause) - 2].text
    IN Compare(operator, Attribute(k, path), bind_vars[vs[Len(vs)]])

Selected(q) ==
    {k \in Keys : /\ docs[k] # NoDoc
                  /\ \A n \in 1..Len(q.filter_list) :
                        FilterHolds(k, q.filter_list[n], q.bind_vars)}

RECURSIVE SortOrder(_, _, _, _)
\* SORT i.@p0 <direction>, ...: -1 when k1 goes first, 1 when k2 does, 0 for a tie
SortOrder(k1, k2, sort_lst, bind_vars) ==
    IF sort_lst = <<>> THEN 0
    ELSE LET clause == sort_lst[1]
             vs == ClauseVars(clause)
             path == [n \in 1..Len(vs) |-> bind_vars[vs[n]]]
             direction == clause[Len(clause)].text
             a == Rank(Attribute(k1, path))
             b == Rank(Attribute(k2, path))
         IN IF a = b THEN SortOrder(k1, k2, Tail(sort_lst), bind_vars)
            ELSE IF (a < b) = (direction = "ASC") THEN -1 ELSE 1

\* the orders in which the store may produce a set of documents: any order that
\* agrees with the SORT clause
Orders(S, q) ==
    {s \in [1..Cardinality(S) -> S] :
        /\ \A m, n \in DOMAIN s : m # n => s[m] # s[n]
        /\ \A m, n \in DOMAIN s :
              m < n => SortOrder(s[m], s[n], q.sort_lst, q.bind_vars) <= 0}

\* LIMIT offset, limit
Window(s, q) ==
    IF q.limit = NoInt THEN s
    ELSE LET from == IF q.offset = NoInt THEN 0 ELSE q.offset
         IN SubSeq(s, from + 1, Min(Len(s), from + q.limit))

\* the result lists that executing the query can give (rows are document keys)
Execute(q) == {Window(s, q) : s \in Orders(Selected(q), q)}

\* cls(**row): the record built from a result row
Row(k) == [name |-> docs[k].name, key_ |-> k, rev_ |-> docs[k].rev]

\* ---------------------------------------------------------------------------
\* find and find_one
\* ---------------------------------------------------------------------------

NAME == <<"name">>

\* filter specifications of the callers (the items of the mapping, in order)
FindFilters ==
    {<<>>,
     <<<<NAME, Str("a")>>>>,
     <<<<NAME, Dict(<<<<"!=", Str("a")>>>>)>>>>,
     <<<<NAME, Dict(<<<<">=", Str("a")>>, <<"<", Str("b")>>>>)>>>>,
     <<<<<<"x", DOT, "name">>, Str("a")>>>>,
     <<<<NAME, Dict(<<<<"IN", Str("a")>>>>)>>>>,
     <<<<NAME, Dict(<<<<">=", Str("a")>>>>)>>, <<<<"x">>, Dict(<<<<"!=", Str("a")>>>>)>>>>,
     <<<<NAME, Str("b")>>, <<<<"x">>, Dict(<<<<"==", Null>>, <<"LIKE", Str("a")>>>>)>>>>}

\* sort specifications of the callers
FindSorts ==
    {<<>>,
     <<<<NAME, "ASC">>>>,
     <<<<NAME, "DESC">>>>,
     <<<<<<"x">>, "ASC">>, <<NAME, "DESC">>>>,
     <<<<NAME, "up">>>>}

FindLimits == {NoInt, 1, 2}
FindOffsets == {NoInt, 0, 1}

FindArgs(filters, raise_on_multiple, limit, offset, sort) ==
    [filters |-> filters, sort |-> sort,
     limit |-> limit, offset |-> offset, raise_on_multiple |-> raise_on_multiple]

FindEvent(c, op, branch, args, out) ==
    [op |-> op, c |-> c, branch |-> branch, out |-> out, args |-> args]

\* no query of any caller is in flight: queries leave the store as it is, so
\* they are taken one at a time
NoQuery == \A c \in Callers : req[c] = NoReq

findVars == <<keyGen, uniqueName, docs, revCtr, rec, everOk, deleted, staleWrite>>

\* find up to the request: a failed compilation ends the call, a compiled
\* query is sent
FindCall(c, op, args) ==
    LET q == CompileFind(args.filters, args.limit, args.offset, args.sort) IN
    /\ Idle(c)
    /\ NoQuery
    /\ IF q.err # "none"
       THEN /\ ev' = FindEvent(c, op, q.at, args, Raise(q.err, 0))
            /\ req' = req
       ELSE /\ req' = [req EXCEPT ![c] = [op |-> op, q |-> q, args |-> args]]
            /\ ev' = ev
    /\ UNCHANGED findVars
    /\ UNCHANGED lockVars
    /\ UNCHANGED cursorVars
    /\ UNCHANGED graphVars

FindBegin(c, filters, limit, offset, sort) ==
    FindCall(c, "find", FindArgs(filters, FALSE, limit, offset, sort))

\* variant: find_one always asks for one row
FindOneLimitOne(raise_on_multiple) == 1

FindOneLimit(raise_on_multiple) == IF raise_on_multiple THEN 2 ELSE 1

FindOneBegin(c, filters, raise_on_multiple, sort) ==
    FindCall(c, "find_one",
             FindArgs(filters, raise_on_multiple, FindOneLimit(raise_on_multiple),
                      NoInt, sort))

\* find_one after to_list
FindOneOutcome(results, raise_on_multiple) ==
    IF raise_on_multiple /\ Len(results) > 1
    THEN Raise("MultipleModelsFoundError", 0)
    ELSE IF results = <<>> THEN Raise("ModelNotFoundError", 0)
    ELSE Ret(Row(results[1]))

\* the store executes the query of c; find hands the rows to its caller in a
\* cursor, find_one reads the list and decides
Query(c) ==
    /\ req[c].op \in {"find", "find_one"}
    /\ ev = NoEv
    /\ \E results \in Execute(req[c].q) :
          ev' = FindEvent(c, req[c].op, "query", req[c].args,
                    IF req[c].op = "find_one"
                    THEN FindOneOutcome(results, req[c].args.raise_on_multiple)
                    ELSE Ret(results))
    /\ req' = [req EXCEPT ![c] = NoReq]
    /\ UNCHANGED findVars
    /\ UNCHANGED lockVars
    /\ UNCHANGED cursorVars
    /\ UNCHANGED graphVars

\* the collections that the queries run on: each key stored or not
Stores ==
    [Keys -> {NoDoc} \cup {[rev |-> RevName[1], name |-> n] : n \in Names}]

InitFind ==
    /\ keyGen = FALSE
    /\ uniqueName = FALSE
    /\ docs \in Stores
    /\ revCtr = 1
    /\ rec = [c \in Callers |-> NewRec]
    /\ req = [c \in Callers |-> NoReq]
    /\ ev = NoEv
    /\ everOk = [c \in Callers |-> FALSE]
    /\ deleted = [c \in Callers |-> 0]
    /\ staleWrite = FALSE
    /\ lockConf = TRUE
    /\ LockIdle
    /\ NoCursors
    /\ NoGraphs

NextFind ==
    \/ Observe
    \/ \E c \in Callers, filters \in FindFilters, sort \in FindSorts :
          \/ \E raise_on_multiple \in BOOLEAN :
                FindOneBegin(c, filters, raise_on_multiple, sort)
          \/ \E limit \in FindLimits, offset \in FindOffsets :
                FindBegin(c, filters, limit, offset, sort)
    \/ \E c \in Callers : Query(c)

SpecFind == InitFind /\ [][NextFind]_vars

\* ---------------------------------------------------------------------------
\* Properties of find and find_one
\* ---------------------------------------------------------------------------

\* the step ends a find_one call whose query the store has executed
FindOneAnswered == ev = NoEv /\ ev'.op = "find_one" /\ ev'.branch = "query"

\* what the caller asked for, read from the arguments of the call: the value
\* of the field that a dotted path names in the stored document k
FieldValue(k, path) ==
    IF SelectSeq(path, LAMBDA p : p # DOT) = NAME /\ Len(path) > 0
       /\ \A n \in 1..(Len(path) - 1) : ~(path[n] # DOT /\ path[n + 1] # DOT)
    THEN Str(docs[k].name) ELSE Null

\* the stored document k satisfies every term of the filter specification
Wanted(k, filters) ==
    /\ docs[k] # NoDoc
    /\ \A n \in DOMAIN filters :
          LET expr == filters[n][2]
              terms == IF expr.kind = "dict" THEN expr.items ELSE <<<<"==", expr>>>>
          IN \A t \in DOMAIN terms :
                Compare(terms[t][1], FieldValue(k, filters[n][1]), terms[t][2])

\* k1 comes strictly before k2 in the requested sort order
StrictlyBefore(k1, k2, sort) ==
    \E n \in DOMAIN sort :
        LET a(m) == Rank(FieldValue(k1, sort[m][1]))
            b(m) == Rank(FieldValue(k2, sort[m][1]))
        IN /\ \A m \in 1..(n - 1) : a(m) = b(m)
           /\ IF sort[n][2] = "ASC" THEN a(n) < b(n) ELSE a(n) > b(n)

\* C12: find_one queries with limit 2 when raise_on_multiple is set and with
\* limit 1 otherwise; with no matching document it raises ModelNotFoundError,
\* with more than one and raise_on_multiple it raises
\* MultipleModelsFoundError, and otherwise it returns a matching document that
\* no other matching document precedes in the requested sort order.
C12_FindOne ==
    [][FindOneAnswered =>
        LET q == req[ev'.c]
            a == q.args
            W == {k \in Keys : Wanted(k, a.filters)}
            out == ev'.out
        IN /\ q.q.limit = (IF a.raise_on_multiple THEN 2 ELSE 1)
           /\ \E n \in DOMAIN q.q.query : q.q.query[n] = IntTok(q.q.limit)
           /\ W = {} => out = Raise("ModelNotFoundError", 0)
           /\ (Cardinality(W) > 1 /\ a.raise_on_multiple)
                 => out = Raise("MultipleModelsFoundError", 0)
           /\ (W # {} /\ ~(Cardinality(W) > 1 /\ a.raise_on_multiple))
                 => /\ out.kind = "return"
                    /\ \E k \in W : /\ out.value = Row(k)
                                    /\ \A k2 \in W : ~StrictlyBefore(k2, k, a.sort)
    ]_vars

\* find_one without raise_on_multiple has returned the first of two matching
\* documents in descending order of name
C12_Witness ==
    /\ ev.op = "find_one"
    /\ ev.branch = "query"
    /\ ~ev.args.raise_on_multiple
    /\ ev.args.filters = <<>>
    /\ ev.args.sort = <<<<NAME, "DESC">>>>
    /\ \A k \in Keys : docs[k] # NoDoc
    /\ docs["k1"].name # docs["k2"].name
    /\ ev.out.kind = "return"
    /\ ev.out.value.name = "b"

\* the operator symbols that a filter specification names
Symbols(filters) ==
    UNION {IF filters[n][2].kind = "dict"
           THEN {filters[n][2].items[t][1] : t \in DOMAIN filters[n][2].items}
           ELSE {} : n \in DOMAIN filters}

\* the sort directions that a sort specification names
Directions(sort) == {sort[n][2] : n \in DOMAIN sort}

\* the call names an unsupported operator or an invalid sort direction
Malformed(a) ==
    \/ ~(Symbols(a.filters) \subseteq DOMAIN comparison_operators)
    \/ ~(Directions(a.sort) \subseteq DIRECTIONS)

\* a find or find_one call whose query is at the store or has been answered
Queries ==
    {req[c].args : c \in {d \in Callers : req[d].op \in {"find", "find_one"}}}
        \cup (IF ev.op \in {"find", "find_one"} /\ ev.branch = "query"
              THEN {ev.args} ELSE {})

\* C14 as stated: no query reaches the store for a call with an unsupported
\* operator, an invalid sort direction, or an offset given without a limit.
C14_NoQueryForMalformed ==
    \A a \in Queries : ~Malformed(a) /\ ~(a.offset # NoInt /\ a.limit = NoInt)

\* C14 as the code has it: no query reaches the store for a call with an
\* unsupported operator, an invalid sort direction, or a non-zero offset
\* without a limit; such a call fails before the request, and the query that
\* is sent is the complete compilation of the call's arguments.
C14_NoQueryForMalformedOrOffset ==
    /\ \A a \in Queries :
          ~Malformed(a) /\ ~(a.offset \notin {NoInt, 0} /\ a.limit = NoInt)
    /\ \A c \in Callers :
          req[c].op \in {"find", "find_one"} =>
              /\ req[c].q.err = "none"
              /\ Len(req[c].q.filter_list) =
                    Cardinality({<<n, t>> \in (DOMAIN req[c].args.filters) \X (1..2) :
                        LET expr == req[c].args.filters[n][2] IN
                        IF expr.kind = "dict" THEN t <= Len(expr.items) ELSE t = 1})
              /\ Len(req[c].q.sort_lst) = Len(req[c].args.sort)
    /\ (ev.op \in {"find", "find_one"}
          /\ (Malformed(ev.args) \/ (ev.args.offset \notin {NoInt, 0}
                                       /\ ev.args.limit = NoInt)))
          => ev.branch # "query" /\ ev.out.kind = "raise"

\* a find call with a non-zero offset and no limit has failed with ValueError
\* and no query is at the store
C14_Witness ==
    /\ ev.op = "find"
    /\ ev.args.limit = NoInt
    /\ ev.args.offset = 1
    /\ ~Malformed(ev.args)
    /\ ev.out = Raise("ValueError", 0)
    /\ NoQuery

\* ---------------------------------------------------------------------------
\* The Operators enumeration and its table of short tokens (operators.py)
\* ---------------------------------------------------------------------------

\* class Operators(str, Enum): the members and their values, in order
OperatorsMembers ==
    <<<<"EQ", "==">>, <<"NE", "!=">>, <<"LT", "<">>, <<"LTE", "<=">>,
      <<"GT", ">">>, <<"GTE", ">=">>, <<"IN", "IN">>, <<"NOT_IN", "NOT IN">>,
      <<"LIKE", "LIKE">>, <<"NOT_LIKE", "NOT LIKE">>, <<"REG_MATCH", "=~">>,
      <<"NOT_REG_MATCH", "!~">>, <<"NOT", "NOT">>, <<"ALL_IN", "ALL IN">>,
      <<"NONE_IN", "NONE IN">>, <<"ANY_IN", "ANY IN">>,
      <<"ANY_EQ", "ANY ==">>, <<"ANY_NE", "ANY !=">>, <<"ANY_LT", "ANY <">>,
      <<"ANY_LTE", "ANY <=">>, <<"ANY_GT", "ANY >">>, <<"ANY_GTE", "ANY >=">>,
      <<"ALL_EQ", "==">>, <<"ALL_NE", "!=">>, <<"ALL_LT", "ALL <">>,
      <<"ALL_LTE", "ALL <=">>, <<"ALL_GT", "ALL >">>, <<"ALL_GTE", "ALL >=">>,
      <<"NONE_EQ", "NONE ==">>, <<"NONE_NE", "NONE !=">>, <<"NONE_LT", "NONE <">>,
      <<"NONE_LTE", "NONE <=">>, <<"NONE_GT", "NONE >">>, <<"NONE_GTE", "NONE >=">>>>

OperatorNames == {OperatorsMembers[n][1] : n \in DOMAIN OperatorsMembers}

\* Operators.<name>: the member is a string, its value
Operators ==
    [name \in OperatorNames |->
        LET n == CHOOSE m \in DOMAIN OperatorsMembers : OperatorsMembers[m][1] = name
        IN OperatorsMembers[n][2]]

OperatorSymbols == {Operators[name] : name \in OperatorNames}

\* the items of the dictionary display comparison_operators, in order
ComparisonOperatorsItems ==
    <<<<"EQ", "eq">>, <<"NE", "ne">>, <<"LT", "lt">>, <<"LTE", "lte">>,
      <<"GT", "gt">>, <<"GTE", "gte">>, <<"IN", "in">>, <<"NOT_IN", "not_in">>,
      <<"LIKE", "like">>, <<"NOT_LIKE", "not_like">>, <<"REG_MATCH", "reg_match">>,
      <<"NOT_REG_MATCH", "not_reg_match">>, <<"NOT", "not">>, <<"ALL_IN", "all_in">>,
      <<"NONE_IN", "none_in">>, <<"ANY_IN", "any_in">>,
      <<"ANY_EQ", "any_eq">>, <<"ANY_NE", "any_ne">>, <<"ANY_LT", "any_lt">>,
      <<"ANY_LTE", "any_lte">>, <<"ANY_GT", "any_gt">>, <<"ANY_GTE", "any_gte">>,
      <<"ALL_EQ", "all_eq">>, <<"ALL_NE", "all_ne">>, <<"ALL_LT", "all_lt">>,
      <<"ALL_LTE", "all_lte">>, <<"ALL_GT", "all_gt">>, <<"ALL_GTE", "all_gte">>,
      <<"NONE_EQ", "none_eq">>, <<"NONE_NE", "none_ne">>, <<"NONE_LT", "none_lt">>,
      <<"NONE_LTE", "none_lte">>, <<"NONE_GT", "none_gt">>, <<"NONE_GTE", "none_gte">>>>

RECURSIVE DictDisplay(_, _)
\* a dictionary display: a later item with an equal key replaces the earlier
\* one (the members are strings and are equal when their values are)
DictDisplay(items, acc) ==
    IF items = <<>> THEN acc
    ELSE DictDisplay(Tail(items), (Operators[items[1][1]] :> items[1][2]) @@ acc)

\* operators.comparison_operators
operators_comparison_operators ==
    DictDisplay(ComparisonOperatorsItems, [s \in {} |-> ""])

\* ---------------------------------------------------------------------------
\* Store errors in the handlers of the operations
\* ---------------------------------------------------------------------------

DATA_SOURCE_NOT_FOUND == 1203
ERROR_GRAPH_NOT_FOUND == 1924
HTTP_NOT_FOUND == 404

\* Graph.delete_vertex / Graph.delete_edge
GraphDeleteOutcome(reply, ignore_missing) ==
    IF reply.st = "ok" THEN Ret("True")
    ELSE IF reply.st = "missing" THEN Ret("False")
    ELSE IF IsInstance(reply.err, "DocumentDeleteError") /\ reply.code = DOCUMENT_NOT_FOUND
         THEN Raise("ModelNotFoundError", 0)
         ELSE Raise(reply.err, reply.code)

DeleteCollectionOutcome(reply, ignore_missing) ==
    IF reply.st = "ok" THEN Ret("True")
    ELSE IF reply.st = "missing" THEN Ret("False")
    ELSE IF IsInstance(reply.err, "CollectionDeleteError")
            /\ reply.code = DATA_SOURCE_NOT_FOUND
         THEN Raise("DataSourceNotFound", 0)
         ELSE Raise(reply.err, reply.code)

\* variant: with ignore_missing every failure of truncate is reported as False
TruncateCollectionOutcomeSwallow(reply, ignore_missing) ==
    IF reply.st = "ok" THEN Ret("True")
    ELSE IF IsInstance(reply.err, "CollectionTruncateError")
         THEN IF ignore_missing THEN Ret("False")
              ELSE IF reply.code = DATA_SOURCE_NOT_FOUND
                   THEN Raise("DataSourceNotFound", 0)
                   ELSE Raise(reply.err, reply.code)
         ELSE Raise(reply.err, reply.code)

TruncateCollectionOutcome(reply, ignore_missing) ==
    IF reply.st = "ok" THEN Ret("True")
    ELSE IF IsInstance(reply.err, "CollectionTruncateError")
         THEN IF reply.code = DATA_SOURCE_NOT_FOUND
              THEN IF ignore_missing THEN Ret("False")
                   ELSE Raise("DataSourceNotFound", 0)
              ELSE Raise(reply.err, reply.code)
         ELSE Raise(reply.err, reply.code)

DeleteGraphOutcome(reply, ignore_missing) ==
    IF reply.st = "ok" THEN Ret("True")
    ELSE IF reply.st = "missing" THEN Ret("False")
    ELSE IF IsInstance(reply.err, "GraphDeleteError") /\ reply.code = ERROR_GRAPH_NOT_FOUND
         THEN Raise("GraphNotFoundError", 0)
         ELSE Raise(reply.err, reply.code)

\* ArangodanticCursor.close
CloseOutcome(reply, ignore_missing) ==
    IF reply.st = "none" THEN Ret(None)
    ELSE IF reply.st = "ok" THEN Ret("True")
    ELSE IF reply.st = "missing" THEN Ret("False")
    ELSE IF IsInstance(reply.err, "CursorCloseError") /\ reply.code = HTTP_NOT_FOUND
         THEN Raise("CursorNotFoundError", 0)
         ELSE Raise(reply.err, reply.code)

\* the error codes that the store may answer with
ErrorCodes ==
    {HTTP_NOT_FOUND, ERROR_ARANGO_CONFLICT, DOCUMENT_NOT_FOUND,
     DATA_SOURCE_NOT_FOUND, ERROR_ARANGO_UNIQUE_CONSTRAINT_VIOLATED,
     ERROR_ARANGO_DOCUMENT_KEY_BAD, ERROR_GRAPH_NOT_FOUND}

\* the replies of the driver to a request whose failures have the class cls;
\* with ignore_missing the driver itself answers False for a missing target
Replies(cls, ignore_missing) ==
    {Ok(None, "")}
        \cup (IF ignore_missing THEN {Missing} ELSE {})
        \cup {Err(e, code) : e \in {cls, "ArangoServerError"}, code \in ErrorCodes}

ErrEvent(c, op, via, branch, ignore_missing, reply, out) ==
    [op |-> op, c |-> c, reply |-> reply, via |-> via, branch |-> branch,
     out |-> out, ignore |-> ignore_missing]

\* an operation is called and the driver answers the request with reply
Answered(c, op, via, branch, ignore_missing, reply, out) ==
    /\ Idle(c)
    /\ ev' = ErrEvent(c, op, via, branch, ignore_missing, reply, out)
    /\ UNCHANGED <<keyGen, uniqueName, docs, revCtr, rec, req, everOk, deleted, staleWrite>>
    /\ UNCHANGED lockVars
    /\ UNCHANGED cursorVars
    /\ UNCHANGED graphVars

\* the class of the errors that the driver raises for the request of save
SaveRaises(via, branch) ==
    IF branch = "insert" THEN "DocumentInsertError"
    ELSE IF via = "graph" THEN "DocumentReplaceError" ELSE "DocumentUpdateError"

ErrSave(c, via, branch) ==
    \E reply \in Replies(SaveRaises(via, branch), FALSE) :
        Answered(c, "save", via, branch, FALSE, reply, SaveOutcome(via, branch, reply))

ErrDelete(c, via, ignore_missing) ==
    \E reply \in Replies("DocumentDeleteError", ignore_missing) :
        Answered(c, "delete", via, "delete", ignore_missing, reply,
                 IF via = "graph" THEN GraphDeleteOutcome(reply, ignore_missing)
                 ELSE DeleteOutcome(reply, ignore_missing))

ErrDeleteCollection(c, ignore_missing) ==
    \E reply \in Replies("CollectionDeleteError", ignore_missing) :
        Answered(c, "delete_collection", "model", "delete", ignore_missing, reply,
                 DeleteCollectionOutcome(reply, ignore_missing))

ErrTruncateCollection(c, ignore_missing) ==
    \E reply \in Replies("CollectionTruncateError", FALSE) :
        Answered(c, "truncate_collection", "model", "truncate", ignore_missing, reply,
                 TruncateCollectionOutcome(reply, ignore_missing))

ErrDeleteGraph(c, ignore_missing) ==
    \E reply \in Replies("GraphDeleteError", ignore_missing) :
        Answered(c, "delete_graph", "graph", "delete", ignore_missing, reply,
                 DeleteGraphOutcome(reply, ignore_missing))

ErrClose(c, ignore_missing) ==
    \E reply \in Replies("CursorCloseError", ignore_missing) :
        Answered(c, "close", "cursor", "close", ignore_missing, reply,
                 CloseOutcome(reply, ignore_missing))

NextErr ==
    \/ Observe
    \/ \E c \in Callers, via \in {"model", "graph"}, branch \in {"insert", "update"} :
          ErrSave(c, via, branch)
    \/ \E c \in Callers, via \in {"model", "graph"}, ignore_missing \in BOOLEAN :
          ErrDelete(c, via, ignore_missing)
    \/ \E c \in Callers, ignore_missing \in BOOLEAN : ErrDeleteCollection(c, ignore_missing)
    \/ \E c \in Callers, ignore_missing \in BOOLEAN : ErrTruncateCollection(c, ignore_missing)
    \/ \E c \in Callers, ignore_missing \in BOOLEAN : ErrDeleteGraph(c, ignore_missing)
    \/ \E c \in Callers, ignore_missing \in BOOLEAN : ErrClose(c, ignore_missing)

InitErr ==
    /\ InitLock
    /\ lockConf = TRUE
    /\ rec = [c \in Callers |-> StoredRec]

SpecErr == InitErr /\ [][NextErr]_vars

\* the codes that the handler of an operation looks for
Recognised(op, via) ==
    IF op = "save"
    THEN IF via = "graph"
         THEN {ERROR_ARANGO_UNIQUE_CONSTRAINT_VIOLATED, DOCUMENT_NOT_FOUND}
         ELSE {ERROR_ARANGO_UNIQUE_CONSTRAINT_VIOLATED}
    ELSE IF op = "delete" THEN {DOCUMENT_NOT_FOUND}
    ELSE IF op \in {"delete_collection", "truncate_collection"} THEN {DATA_SOURCE_NOT_FOUND}
    ELSE IF op = "delete_graph" THEN {ERROR_GRAPH_NOT_FOUND}
    ELSE {HTTP_NOT_FOUND}

ErrOps ==
    {"save", "delete", "delete_collection", "truncate_collection", "delete_graph", "close"}

\* C13: in save, delete, Graph.save, Graph.delete, delete_collection,
\* truncate_collection, delete_graph and cursor close, a store error whose code
\* is not one that the operation recognises reaches the caller as it is: the
\* call raises the same error with the same code, it does not return a value
\* and it does not raise an error of the library's own taxonomy.
C13_UnrecognisedReraised ==
    (/\ ev.op \in ErrOps
     /\ ev.reply.st = "err"
     /\ ev.reply.code \notin Recognised(ev.op, ev.via))
        => ev.out = Raise(ev.reply.err, ev.reply.code)

\* truncate_collection with ignore_missing was answered with an error of its
\* own class that is not "collection not found", and raised it
C13_Witness ==
    /\ ev.op = "truncate_collection"
    /\ ev.ignore
    /\ ev.reply = Err("CollectionTruncateError", ERROR_ARANGO_CONFLICT)
    /\ ev.out.kind = "raise"

\* ---------------------------------------------------------------------------
\* Calls of the compiler's functions
\* ---------------------------------------------------------------------------

\* operator symbols of the callers: those of the Operators enumeration and one
\* that is no operator at all
FilterSymbols == OperatorSymbols \cup {"p"}

FilterValues == {Str("a"), Str("b"), Null, ModelValue("k1"), ModelValue(None)}

FieldPaths == {NAME, <<"x", DOT, "name">>, <<DOT, "x", DOT, DOT>>}

\* the values of a filter entry: literals, and operator maps of no, one or two
\* terms
FilterExprs ==
    FilterValues
        \cup {Dict(<<>>)}
        \cup {Dict(<<<<s, v>>>>) : s \in FilterSymbols, v \in FilterValues}
        \cup {Dict(<<<<s1, Str("a")>>, <<s2, Str("b")>>>>) :
                s1 \in FilterSymbols, s2 \in {">=", "IN"}}

\* filter specifications of one entry, and of two
FilterSpecs ==
    {<<<<f, e>>>> : f \in FieldPaths, e \in FilterExprs}
        \cup {<<<<NAME, e1>>, <<<<"x">>, e2>>>> :
                e1, e2 \in {Str("a"), Dict(<<<<">=", Str("a")>>>>),
                            Dict(<<<<"LIKE", Str("a")>>>>)}}

CallEvent(c, op, arg, out) == [op |-> op, c |-> c, out |-> out, arg |-> arg]

Returned(c, op, arg, out) ==
    /\ Idle(c)
    /\ ev' = CallEvent(c, op, arg, out)
    /\ UNCHANGED <<keyGen, uniqueName, docs, revCtr, rec, req, everOk, deleted, staleWrite>>
    /\ UNCHANGED lockVars
    /\ UNCHANGED cursorVars
    /\ UNCHANGED graphVars

\* build_filters(filters, "i")
BuildFilters(c, filters) ==
    Returned(c, "build_filters", filters, build_filters(filters, "i"))

\* split_field(name, "field_0")
SplitField(c, name) ==
    Returned(c, "split_field", name, split_field(name, Prefix("field", 0)))

\* Operators.<name> and its entry in operators.comparison_operators
Lookup(c, name) ==
    Returned(c, "Operators", name,
             [token |-> operators_comparison_operators[Operators[name]],
              symbol |-> Operators[name]])

\* find up to the request to the store
FindQuery(c, filters, limit, offset, sort) ==
    Returned(c, "find", FindArgs(filters, FALSE, limit, offset, sort),
             CompileFind(filters, limit, offset, sort))

\* sort specifications given to build_sort: up to MaxSort pairs
SortFields == {NAME, <<"name", DOT, "x">>}
SortDirections == DIRECTIONS \cup {"up", ""}
SortPairs == SortFields \X SortDirections
SortSpecs == UNION {[1..n -> SortPairs] : n \in 0..MaxSort}

\* build_sort("i", sort)
BuildSort(c, sort) ==
    Returned(c, "build_sort", sort, build_sort("i", sort))

\* The text of a lock name, as the sequence of its pieces: an underscore, or
\* a piece of text without underscores. get_lock_name above is this text for
\* the one collection and the keys of the lock specifications.
UNDERSCORE == "_"

\* f"{CONF.lock_name_prefix}{cls.get_collection_name()}_{key}"
LockNameText(coll, key) == <<LOCK_NAME_PREFIX>> \o coll \o <<UNDERSCORE>> \o key

DigitChars == <<"0", "1", "2", "3", "4", "5", "6", "7", "8", "9">>

RECURSIVE Digits(_)
\* f"{i}" of a number that is not negative
Digits(n) ==
    IF n < 10 THEN <<DigitChars[n + 1]>>
    ELSE Digits(n \div 10) \o <<DigitChars[(n % 10) + 1]>>

\* variant: the number of the filter or sort entry is not part of the name
BindVarNameNoEntry(v) ==
    IF v.pre = "@collection" THEN <<v.pre>>
    ELSE <<v.pre, UNDERSCORE>>
            \o (IF v.part >= 0 THEN Digits(v.part) ELSE <<v.token>>)

\* The text of the name of a bind variable, as the sequence of its pieces:
\* f"field_{i}" / f"sort_{i}", then f"{prefix}_{j}" for a part of a path and
\* f"{prefix}_{token}" for an operand; "@collection" for the collection
BindVarName(v) ==
    IF v.pre = "@collection" THEN <<v.pre>>
    ELSE <<v.pre, UNDERSCORE>> \o Digits(v.i) \o <<UNDERSCORE>>
            \o (IF v.part >= 0 THEN Digits(v.part) ELSE <<v.token>>)

\* names of collections and keys of records, both of which may have underscores
LockCollections == {<<"ext">>, <<"ext", UNDERSCORE, "identities">>}
LockKeys == {<<"1">>, <<"identities", UNDERSCORE, "1">>}

\* cls.get_lock_name(key) of the record type with collection coll
GetLockName(c, coll, key) ==
    Returned(c, "get_lock_name", <<coll, key>>, LockNameText(coll, key))

NextCompile ==
    \/ Observe
    \/ \E c \in Callers, coll \in LockCollections, key \in LockKeys : GetLockName(c, coll, key)
    \/ \E c \in Callers, sort \in SortSpecs : BuildSort(c, sort)
    \/ \E c \in Callers, filters \in FindFilters, sort \in FindSorts,
          limit \in FindLimits, offset \in FindOffsets :
             FindQuery(c, filters, limit, offset, sort)
    \/ \E c \in Callers, filters \in FilterSpecs : BuildFilters(c, filters)
    \/ \E c \in Callers, name \in Paths : SplitField(c, name)
    \/ \E c \in Callers, name \in OperatorNames : Lookup(c, name)

SpecCompile == InitErr /\ [][NextCompile]_vars

\* ---------------------------------------------------------------------------
\* Properties of the predicate compiler
\* ---------------------------------------------------------------------------

\* the call of build_filters that has returned or raised
Built == ev.op = "build_filters"

TermCount(filters) ==
    Cardinality({<<n, t>> \in (DOMAIN filters) \X (1..2) :
        IF filters[n][2].kind = "dict" THEN t <= Len(filters[n][2].items) ELSE t = 1})

\* C16: build_filters accepts every operator of the Operators enumeration
\* (scalar comparisons, IN / NOT IN, LIKE / NOT LIKE, regex match and
\* not-match, ALL IN / NONE IN / ANY IN, and ANY / ALL / NONE with a
\* comparison): for a filter whose symbols all belong to it, build_filters
\* does not fail and returns one fragment and one operand bind variable for
\* each term.
C16_OperatorsAccepted ==
    (Built /\ Symbols(ev.arg) \subseteq OperatorSymbols)
        => /\ ev.out.err = "none"
           /\ Len(ev.out.filter_list) = TermCount(ev.arg)
           /\ Cardinality({v \in DOMAIN ev.out.bind_vars : v.part = -1})
                 = TermCount(ev.arg)

\* {f: {"==": v}} for the filter {f: v}
Explicit(filters) ==
    <<<<filters[1][1], Dict(<<<<"==", filters[1][2]>>>>)>>>>

\* build_filters was called with one entry {f: v}
BuiltOne == Built /\ Len(ev.arg) = 1

\* C18 as stated: for every field f and every literal value v, mappings and
\* Records included, build_filters({f: v}) returns what
\* build_filters({f: {"==": v}}) returns.
C18_LiteralIsEquality ==
    BuiltOne => ev.out = build_filters(Explicit(ev.arg), "i")

\* C18 as the code has it: for every field f and every literal value v that is
\* not a mapping (strings, null, Records), build_filters({f: v}) returns what
\* build_filters({f: {"==": v}}) returns: one "==" fragment whose operand
\* variable is bound to v, or to the identifier of v when v is a Record.
C18_NonMappingLiteralIsEquality ==
    (BuiltOne /\ ev.arg[1][2].kind # "dict") =>
        LET v == ev.arg[1][2]
            eq == TokVar(Prefix("field", 0), "eq")
        IN /\ ev.out = build_filters(Explicit(ev.arg), "i")
           /\ ev.out.err = "none"
           /\ Len(ev.out.filter_list) = 1
           /\ \E t \in DOMAIN ev.out.filter_list[1] :
                 ev.out.filter_list[1][t] = Lit("==")
           /\ ev.out.bind_vars[eq] = (IF v.kind = "model" THEN id_(v) ELSE v)

\* build_filters was called with a Record as the literal value of a field
C18_Witness ==
    /\ BuiltOne
    /\ ev.arg[1][2] = ModelValue("k1")
    /\ ev.out.err = "none"
    /\ ev.out.bind_vars[TokVar(Prefix("field", 0), "eq")] = [coll |-> COLL, key |-> "k1"]

\* ---------------------------------------------------------------------------
\* Properties of the Operators enumeration
\* ---------------------------------------------------------------------------

\* the quantified array operators: member, quantifier, the member of the
\* comparison that is quantified, and the operator as the query language
\* writes it
QuantifiedOperators ==
    {<<"ANY_IN", "ANY", "IN", "ANY IN">>, <<"ALL_IN", "ALL", "IN", "ALL IN">>,
     <<"NONE_IN", "NONE", "IN", "NONE IN">>,
     <<"ANY_EQ", "ANY", "EQ", "ANY ==">>, <<"ANY_NE", "ANY", "NE", "ANY !=">>,
     <<"ANY_LT", "ANY", "LT", "ANY <">>, <<"ANY_LTE", "ANY", "LTE", "ANY <=">>,
     <<"ANY_GT", "ANY", "GT", "ANY >">>, <<"ANY_GTE", "ANY", "GTE", "ANY >=">>,
     <<"ALL_EQ", "ALL", "EQ", "ALL ==">>, <<"ALL_NE", "ALL", "NE", "ALL !=">>,
     <<"ALL_LT", "ALL", "LT", "ALL <">>, <<"ALL_LTE", "ALL", "LTE", "ALL <=">>,
     <<"ALL_GT", "ALL", "GT", "ALL >">>, <<"ALL_GTE", "ALL", "GTE", "ALL >=">>,
     <<"NONE_EQ", "NONE", "EQ", "NONE ==">>, <<"NONE_NE", "NONE", "NE", "NONE !=">>,
     <<"NONE_LT", "NONE", "LT", "NONE <">>, <<"NONE_LTE", "NONE", "LTE", "NONE <=">>,
     <<"NONE_GT", "NONE", "GT", "NONE >">>, <<"NONE_GTE", "NONE", "GTE", "NONE >=">>}

\* the token that the dictionary display lists for a member
ListedToken(name) ==
    LET n == CHOOSE m \in DOMAIN ComparisonOperatorsItems :
                 ComparisonOperatorsItems[m][1] = name
    IN ComparisonOperatorsItems[n][2]

\* C17: every quantified array operator (each ANY_*, ALL_* and NONE_* member)
\* has a symbol that carries its quantifier before the comparison, its symbol
\* differs from the symbol of the unquantified comparison, and the table of
\* short tokens maps each operator to the token listed for it (ALL == to
\* all_eq, == to eq, and so on), so no two operators share a token.
C17_QuantifiedSymbols ==
    ev.op = "Operators" =>
        /\ \A q \in QuantifiedOperators :
              q[1] = ev.arg => /\ ev.out.symbol = q[4]
                               /\ ev.out.symbol # Operators[q[3]]
        /\ ev.out.token = ListedToken(ev.arg)

\* ---------------------------------------------------------------------------
\* Properties of split_field
\* ---------------------------------------------------------------------------

RECURSIVE Segments(_, _)
\* the non-empty runs of pieces between the dots of a path, left to right
\* (cur is the run read so far)
Segments(s, cur) ==
    IF s = <<>> THEN (IF cur = <<>> THEN <<>> ELSE <<cur>>)
    ELSE IF s[1] = DOT
         THEN (IF cur = <<>> THEN <<>> ELSE <<cur>>) \o Segments(Tail(s), <<>>)
         ELSE Segments(Tail(s), Append(cur, s[1]))

RECURSIVE DotJoined(_)
\* the segments written with one dot between neighbours
DotJoined(segments) ==
    IF segments = <<>> THEN <<>>
    ELSE IF Len(segments) = 1 THEN segments[1]
    ELSE segments[1] \o <<DOT>> \o DotJoined(Tail(segments))

\* the normalised path: runs of dots collapsed, leading and trailing dots
\* trimmed
Normalised(name) == DotJoined(Segments(name, <<>>))

\* the call of split_field that has returned
Splitted == ev.op = "split_field"

\* C19: for every field path, split_field returns the same expression and the
\* same bind variables as for the normalised path (runs of dots collapsed,
\* leading and trailing dots trimmed), with one bind variable per segment of
\* the normalised path, and it never raises.
C19_SplitNormalises ==
    Splitted =>
        LET segments == Segments(ev.arg, <<>>)
            prefix == Prefix("field", 0)
        IN /\ ev.out = split_field(Normalised(ev.arg), prefix)
           /\ segments # <<>> =>
                 /\ DOMAIN ev.out.bind_vars
                       = {PartVar(prefix, j - 1) : j \in DOMAIN segments}
                 /\ \A j \in DOMAIN segments :
                       ev.out.bind_vars[PartVar(prefix, j - 1)] = Text(segments[j])
                 /\ Len(ev.out.str) = 2 * Len(segments) - 1

\* split_field was called with a path that has leading, double and trailing
\* dots around two segments
C19_Witness ==
    /\ Splitted
    /\ ev.arg = <<DOT, "name", DOT, DOT, "x">>
    /\ DOMAIN ev.out.bind_vars = {PartVar(Prefix("field", 0), 0), PartVar(Prefix("field", 0), 1)}

\* ---------------------------------------------------------------------------
\* Properties of the query text
\* ---------------------------------------------------------------------------

\* other field paths and operand values that a caller may put in place of the
\* ones of a specification
OtherPaths ==
    {<<"x">>, <<DOT, "name">>, <<"x", "x">>,
     <<"name", DOT, "x">>, <<"x", DOT, DOT, "x">>}

OtherValues == {Str("b"), ModelValue("k1")}

\* the paths with as many segments as path
PathVariants(path) ==
    {p \in OtherPaths : Len(Segments(p, <<>>)) = Len(Segments(path, <<>>))}

\* the expressions with the operators of expr, in order, and other operands
ExprVariants(expr) ==
    IF expr.kind = "dict"
    THEN {Dict([t \in DOMAIN expr.items |-> <<expr.items[t][1], vs[t]>>]) :
             vs \in [DOMAIN expr.items -> OtherValues]}
    ELSE OtherValues \cup {Dict(<<<<"==", v>>>>) : v \in OtherValues}

\* the filter specifications with the shape of filters: as many entries, as
\* many segments in each path, the same operators
FilterVariants(filters) ==
    {f \in [DOMAIN filters ->
               UNION {PathVariants(filters[n][1]) \X ExprVariants(filters[n][2]) :
                         n \in DOMAIN filters}] :
        \A n \in DOMAIN filters :
            /\ f[n][1] \in PathVariants(filters[n][1])
            /\ f[n][2] \in ExprVariants(filters[n][2])}

\* the sort specifications with the shape of sort: as many entries, as many
\* segments in each path, the same directions
SortVariants(sort) ==
    {s \in [DOMAIN sort -> OtherPaths \X DIRECTIONS] :
        \A n \in DOMAIN sort :
            /\ s[n][1] \in PathVariants(sort[n][1])
            /\ s[n][2] = sort[n][2]}

\* find has compiled the caller's specification into a query
Compiles == ev.op = "find" /\ ev.out.err = "none"

\* C20: the text of the query built by find does not depend on the content of
\* field-path segments or operand values: every specification with as many
\* terms, as many segments per path, the same operators and the same
\* directions (and the same limit and offset) compiles to the same text with
\* bind variables of the same names; the segments and operands are the values
\* of bind variables.
C20_TextIndependentOfContent ==
    Compiles =>
        \A f \in FilterVariants(ev.arg.filters), s \in SortVariants(ev.arg.sort) :
            LET other == CompileFind(f, ev.arg.limit, ev.arg.offset, s) IN
            /\ other.err = "none"
            /\ other.query = ev.out.query
            /\ DOMAIN other.bind_vars = DOMAIN ev.out.bind_vars
            /\ \A n \in DOMAIN f :
                  \E v \in DOMAIN other.bind_vars :
                      other.bind_vars[v] = Text(Segments(f[n][1], <<>>)[1])

\* find has compiled a specification of two filter entries and two sort
\* entries
C20_Witness ==
    /\ Compiles
    /\ Len(ev.arg.filters) = 2
    /\ Len(ev.arg.sort) = 2
    /\ FilterVariants(ev.arg.filters) # {}
    /\ SortVariants(ev.arg.sort) # {}


\* ---------------------------------------------------------------------------
\* build_sort and the sort directions

SortBuilt == ev.op = "build_sort"

\* the positions of the pairs whose direction is not a recognised token
Offending(sort) == {i \in DOMAIN sort : sort[i][2] \notin {"ASC", "DESC"}}

FirstOffending(sort) ==
    CHOOSE i \in Offending(sort) : \A j \in Offending(sort) : i <= j

MaxRows == 3
\* rows that the store delivers in one reply
BatchSize == 2
\* most explicit close calls on one cursor
MaxClose == 2

\* the store's error number for a cursor it does not know
ERROR_CURSOR_NOT_FOUND == 1600

\* a cursor object straight from find: the driver's fields, the state of the
\* wrapper's use (open, scope, left, listed), the close calls so far and the
\* rows that the query matched. The store keeps a cursor of its own, named by
\* id, only when the first reply does not hold every row.
NewCursor(c, result) ==
    [st |-> "open",
     id |-> IF Len(result) > BatchSize THEN c ELSE None,
     batch |-> SubSeq(result, 1, Min(BatchSize, Len(result))),
     has_more |-> Len(result) > BatchSize,
     closes |-> 0,
     rows |-> result]

\* the rows of the results: the positions in the order of the store
ResultSets == {[i \in 1..n |-> i] : n \in 0..MaxRows}

\* the rows that the store keeps after delivering one more batch of s
Rest(s) == IF Len(s) > BatchSize THEN SubSeq(s, BatchSize + 1, Len(s)) ELSE NoRows

\* the driver's Cursor.close: nothing is sent without an id; the store deletes
\* the cursor it knows and answers 404 for one it does not; error_code is the
\* error number of the reply's body, or the HTTP status when the body has none
NothingToClose == [st |-> "none", err |-> "none", code |-> 0, key |-> None, rev |-> ""]
DriverClose(k, s, ignore_missing) ==
    IF k.id = None THEN {NothingToClose}
    ELSE IF s # NoRows THEN {Ok(None, "")}
    ELSE IF ignore_missing THEN {Missing}
    ELSE {Err("CursorCloseError", code) : code \in {ERROR_CURSOR_NOT_FOUND, HTTP_NOT_FOUND}}

\* the store after the close request
ClosedRows(k, s) == IF k.id = None THEN s ELSE NoRows

CursorEvent(c, op, out, ignore_missing, raised) ==
    [op |-> op, c |-> c, out |-> out, ignore |-> ignore_missing, raised |-> raised]

\* find: the store executes the query and answers with the first batch
CursorFind(c, result) ==
    /\ Idle(c)
    /\ cursor[c] = NoCursor
    /\ cursor' = [cursor EXCEPT ![c] = NewCursor(c, result)]
    /\ cursors' = [cursors EXCEPT ![c] = Rest(result)]
    /\ UNCHANGED ev
    /\ UNCHANGED <<keyGen, uniqueName, docs, revCtr, rec, req, everOk, deleted, staleWrite>>
    /\ UNCHANGED lockVars
    /\ UNCHANGED graphVars

\* async with cursor: __aenter__ returns the cursor
AEnter(c) ==
    /\ Idle(c)
    /\ cursor[c].st = "open"
    /\ cursor' = [cursor EXCEPT ![c].st = "scope"]
    /\ UNCHANGED <<cursors, ev>>
    /\ UNCHANGED <<keyGen, uniqueName, docs, revCtr, rec, req, everOk, deleted, staleWrite>>
    /\ UNCHANGED lockVars
    /\ UNCHANGED graphVars

\* the body takes the next row from the driver's cursor: a row of the batch, or
\* the first row of the batch fetched from the store, which forgets the cursor
\* with its last batch
CursorNext(c) ==
    /\ Idle(c)
    /\ cursor[c].st = "scope"
    /\ IF cursor[c].batch # <<>>
       THEN /\ cursor' = [cursor EXCEPT ![c].batch = Tail(@)]
            /\ cursors' = cursors
       ELSE /\ cursor[c].has_more
            /\ cursors[c] # NoRows
            /\ cursor' = [cursor EXCEPT
                 ![c].batch = Tail(SubSeq(cursors[c], 1, Min(BatchSize, Len(cursors[c])))),
                 ![c].has_more = Len(cursors[c]) > BatchSize]
            /\ cursors' = [cursors EXCEPT ![c] = Rest(@)]
    /\ UNCHANGED ev
    /\ UNCHANGED <<keyGen, uniqueName, docs, revCtr, rec, req, everOk, deleted, staleWrite>>
    /\ UNCHANGED lockVars
    /\ UNCHANGED graphVars

\* variant: the scope closes the cursor with the default of ignore_missing
ExitIgnoreMissingDefault == FALSE

\* await self.close(ignore_missing=True)
ExitIgnoreMissing == TRUE

\* close(ignore_missing) on the cursor in state st, which becomes state to
CloseCall(c, op, st, to, ignore_missing, raised) ==
    /\ Idle(c)
    /\ cursor[c].st = st
    /\ \E reply \in DriverClose(cursor[c], cursors[c], ignore_missing) :
          ev' = CursorEvent(c, op, CloseOutcome(reply, ignore_missing),
                            ignore_missing, raised)
    /\ cursor' = [cursor EXCEPT ![c].st = to, ![c].closes = @ + 1]
    /\ cursors' = [cursors EXCEPT ![c] = ClosedRows(cursor[c], @)]
    /\ UNCHANGED <<keyGen, uniqueName, docs, revCtr, rec, req, everOk, deleted, staleWrite>>
    /\ UNCHANGED lockVars
    /\ UNCHANGED graphVars

\* the body ends, by its end or by an error, and __aexit__ runs
AExit(c, raised) ==
    CloseCall(c, "aexit", "scope", "left", ExitIgnoreMissing, raised)

\* await cursor.close(ignore_missing)
Close(c, ignore_missing) ==
    /\ cursor[c].st = "open"
    /\ cursor[c].closes < MaxClose
    /\ CloseCall(c, "close", "open", "open", ignore_missing, FALSE)

\* to_list: as many next() calls as the current batch has rows
ToList(c) ==
    /\ Idle(c)
    /\ cursor[c].st = "open"
    /\ ev' = CursorEvent(c, "to_list", Ret(cursor[c].batch), FALSE, FALSE)
    /\ cursor' = [cursor EXCEPT ![c].st = "listed", ![c].batch = <<>>]
    /\ UNCHANGED cursors
    /\ UNCHANGED <<keyGen, uniqueName, docs, revCtr, rec, req, everOk, deleted, staleWrite>>
    /\ UNCHANGED lockVars
    /\ UNCHANGED graphVars

\* the store drops a cursor that was not used for its time to live
CursorExpire(c) ==
    /\ cursors[c] # NoRows
    /\ cursors' = [cursors EXCEPT ![c] = NoRows]
    /\ UNCHANGED <<cursor, ev>>
    /\ UNCHANGED <<keyGen, uniqueName, docs, revCtr, rec, req, everOk, deleted, staleWrite>>
    /\ UNCHANGED lockVars
    /\ UNCHANGED graphVars

NextCursor ==
    \/ Observe
    \/ \E c \in Callers, result \in ResultSets : CursorFind(c, result)
    \/ \E c \in Callers : AEnter(c)
    \/ \E c \in Callers : CursorNext(c)
    \/ \E c \in Callers, raised \in BOOLEAN : AExit(c, raised)
    \/ \E c \in Callers, ignore_missing \in BOOLEAN : Close(c, ignore_missing)
    \/ \E c \in Callers : ToList(c)
    \/ \E c \in Callers : CursorExpire(c)

\* no find has been issued yet: the callers have no cursor object
InitCursor ==
    /\ keyGen = FALSE
    /\ uniqueName = TRUE
    /\ docs = [k \in Keys |-> NoDoc]
    /\ revCtr = 0
    /\ rec = [c \in Callers |-> NewRec]
    /\ req = [c \in Callers |-> NoReq]
    /\ ev = NoEv
    /\ everOk = [c \in Callers |-> FALSE]
    /\ deleted = [c \in Callers |-> 0]
    /\ staleWrite = FALSE
    /\ lockConf = TRUE
    /\ LockIdle
    /\ NoGraphs
    /\ cursors = [c \in Callers |-> NoRows]
    /\ cursor = [c \in Callers |-> NoCursor]

SpecCursor == InitCursor /\ [][NextCursor]_vars

\* ---------------------------------------------------------------------------
\* Properties of the cursor

\* the step in which c leaves the scope of `async with cursor`
ScopeLeft(c) == cursor[c].st = "scope" /\ cursor'[c].st = "left"

\* C22: leaving the scope of `async with cursor` invokes
\* close(ignore_missing=True) exactly once, whether the body finished or raised;
\* the exit does not raise, also when the store no longer knows the cursor, and
\* after it the store holds no cursor of that find.
C22_ScopeExitCloses ==
    [][\A c \in Callers :
          ScopeLeft(c) =>
              /\ cursor'[c].closes = cursor[c].closes + 1
              /\ ev'.op = "aexit" /\ ev'.c = c
              /\ ev'.ignore = TRUE
              /\ ev'.out.kind = "return"
              /\ cursors'[c] = NoRows]_vars

\* a scope whose body raised has been left without an error although the
\* store had already dropped the cursor, of which a batch was never fetched
C22_Witness ==
    /\ ev.op = "aexit"
    /\ ev.raised
    /\ ev.out = Ret("False")
    /\ cursor[ev.c].has_more
    /\ cursor[ev.c].st = "left"

\* the call of to_list that has just returned
Listed == ev.op = "to_list"

\* C23: to_list returns every row of the result, in the order of the store, and
\* leaves the cursor exhausted, in however many batches the store delivers the
\* result.
C23_ToListDrains ==
    Listed =>
        /\ ev.out = Ret(cursor[ev.c].rows)
        /\ cursor[ev.c].batch = <<>>
        /\ cursors[ev.c] = NoRows

\* C24: after to_list the close semantics of the scope have been applied:
\* close has been invoked and the store holds no cursor of that find.
C24_ToListCloses ==
    \A c \in Callers :
        cursor[c].st = "listed" =>
            /\ cursor[c].closes > 0
            /\ (cursor[c].has_more => cursors[c] = NoRows)

\* the store no longer knows the cursor that the driver has an id for
Gone(c) == cursor[c].id # None /\ cursors[c] = NoRows

\* C25: close returns True when this call closed the cursor of the store, False
\* when that cursor was already gone and ignore_missing is True, and None when
\* the whole result was fetched with the first reply; it raises
\* CursorNotFoundError when the cursor was already gone and ignore_missing is
\* False.
C25_CloseResults ==
    [][\A c \in Callers :
          (cursor[c].st = "open" /\ cursor'[c].closes = cursor[c].closes + 1) =>
              ev'.out =
                 IF cursor[c].id = None THEN Ret(None)
                 ELSE IF ~Gone(c) THEN Ret("True")
                 ELSE IF ev'.ignore THEN Ret("False")
                 ELSE Raise("CursorNotFoundError", 0)]_vars

(* ---------------------------------------------------------------------- *)
(* The Graph coordinator: edges, cascading deletion, graph definitions     *)
(* ---------------------------------------------------------------------- *)
\* most writes of edges that the store accepts in one behaviour
MaxEdgeWrites == 2

\* the store's error number for a graph that exists already
ERROR_GRAPH_DUPLICATE == 1925

\* the graph that declares an edge collection (ArangodanticConfig.edge_definitions)
GraphOf(coll) ==
    IF coll = "relations" THEN "relation_graph" ELSE "secondary_relation_graph"

\* isinstance(x, DocumentModel): the end of an edge is a vertex record, not
\* the identifier of one
IsDocumentModel(x) == "key_" \in DOMAIN x

\* data["_from"] / data["_to"]: the id_ of a vertex record, or the value as it is
EdgeEnd(x) == IF IsDocumentModel(x) THEN id_(x) ELSE x

\* EdgeModel.get_arangodb_data: "_key" only when key_ is set, "_id" only for a
\* Persisted edge, "_from" and "_to" as identifiers (name is the payload, kind)
edge_get_arangodb_data(e) ==
    [rev |-> e.rev_, name |-> e.name, coll |-> e.coll, key |-> e.key_,
     has |-> {"_rev", "_id", "_from", "_to", "kind"}
                \cup (IF e.key_ = None THEN {} ELSE {"_key"}),
     id |-> IF e.rev_ # "" THEN [coll |-> e.coll, key |-> e.key_] ELSE NoId,
     from |-> EdgeEnd(e.from_), to |-> EdgeEnd(e.to_)]

EdgeExists(coll, k) == k \in EdgeKeys /\ edges[coll][k] # NoEdge
\* an end of the edge names a vertex that is not stored
Dangling(data) == ~Exists(data.from.key) \/ ~Exists(data.to.key)
KindTaken(data) ==
    uniqueName /\ \E k \in EdgeKeys \ {data.key} :
                     EdgeExists(data.coll, k) /\ edges[data.coll][k].name = data.name

\* the store checks an edge written through a graph: its ends must be stored
\* and the unique indexes must hold (in no fixed order)
EdgeWrite(data, taken, errT) ==
    (IF Dangling(data) THEN {Err(errT, DOCUMENT_NOT_FOUND)} ELSE {})
      \cup (IF taken THEN {Err(errT, ERROR_ARANGO_UNIQUE_CONSTRAINT_VIOLATED)} ELSE {})
      \cup (IF ~Dangling(data) /\ ~taken THEN {Ok(data.key, NewRev)} ELSE {})

\* del data["_key"] on a serialised edge that has no "_key"
KeyErr == [st |-> "err", err |-> "KeyError", code |-> 0, key |-> None, rev |-> ""]

\* graph.insert_edge(collection=collection_name, edge=data)
GraphInsertEdge(g, data) ==
    IF g \notin graphs THEN {Err("DocumentInsertError", ERROR_GRAPH_NOT_FOUND)}
    ELSE EdgeWrite(data, EdgeExists(data.coll, data.key) \/ KindTaken(data),
                   "DocumentInsertError")

\* graph.replace_edge(edge=data): the driver finds the collection in "_id"
GraphReplaceEdge(g, data) ==
    IF data.id = NoId THEN {ClientErr}
    ELSE IF g \notin graphs THEN {Err("DocumentReplaceError", ERROR_GRAPH_NOT_FOUND)}
    ELSE IF ~EdgeExists(data.coll, data.key)
         THEN {Err("DocumentReplaceError", DOCUMENT_NOT_FOUND)}
    ELSE IF edges[data.coll][data.key].rev # data.rev
         THEN {Err("DocumentRevisionError", ERROR_ARANGO_CONFLICT)}
    ELSE EdgeWrite(data, KindTaken(data), "DocumentReplaceError")

\* graph.delete_edge(data, ignore_missing=ignore_missing)
GraphDeleteEdgeCall(g, data, ignore_missing) ==
    IF data.id = NoId THEN {ClientErr}
    ELSE IF g \notin graphs THEN {Err("DocumentDeleteError", ERROR_GRAPH_NOT_FOUND)}
    ELSE IF ~EdgeExists(data.coll, data.key)
         THEN {IF ignore_missing THEN Missing
               ELSE Err("DocumentDeleteError", DOCUMENT_NOT_FOUND)}
    ELSE IF edges[data.coll][data.key].rev # data.rev
         THEN {Err("DocumentRevisionError", ERROR_ARANGO_CONFLICT)}
    ELSE {Ok(data.key, "")}

\* the edges after the store has removed vertex k through a graph: every edge
\* from or to it goes, in the edge collections of all graphs
Cascade(k) ==
    [coll \in EdgeColls |->
        IF GraphOf(coll) \in graphs
        THEN [e \in EdgeKeys |->
                IF edges[coll][e].from.key = k \/ edges[coll][e].to.key = k
                THEN NoEdge ELSE edges[coll][e]]
        ELSE edges[coll]]

GraphCall(op, via, branch, ignore, data) ==
    [op |-> op, via |-> via, branch |-> branch, ignore |-> ignore, data |-> data]

\* the caller builds a new edge from vertex k1 to vertex k2, with or without a key
NewEdge(c, coll, k, n) ==
    /\ Idle(c)
    /\ edge[c] = NoEdgeHandle
    /\ edge' = [edge EXCEPT ![c] =
                  [name |-> n, coll |-> coll, key_ |-> k, rev_ |-> "",
                   from_ |-> [coll |-> COLL, key |-> "k1"],
                   to_ |-> [coll |-> COLL, key |-> "k2"]]]
    /\ UNCHANGED <<graphs, edges, ev>>
    /\ UNCHANGED <<keyGen, uniqueName, docs, revCtr, rec, req, everOk, deleted, staleWrite>>
    /\ UNCHANGED lockVars
    /\ UNCHANGED cursorVars

\* the caller changes the payload of its edge
SetKind(c, n) ==
    /\ Idle(c)
    /\ edge[c] # NoEdgeHandle
    /\ edge[c].name # n
    /\ edge' = [edge EXCEPT ![c].name = n]
    /\ UNCHANGED <<graphs, edges, ev>>
    /\ UNCHANGED <<keyGen, uniqueName, docs, revCtr, rec, req, everOk, deleted, staleWrite>>
    /\ UNCHANGED lockVars
    /\ UNCHANGED cursorVars

\* Graph.save(edge) through the graph of the edge's collection; gen is the key
\* that CONF.key_gen gives
GraphSaveEdge(c, gen) ==
    /\ Idle(c)
    /\ edge[c] # NoEdgeHandle
    /\ LET e == IF IsNew(edge[c]) /\ edge[c].key_ = None /\ keyGen
                THEN [edge[c] EXCEPT !.key_ = gen] ELSE edge[c]
           branch == IF IsNew(edge[c]) THEN "insert" ELSE "update"
           data == edge_get_arangodb_data(e)
           replies == IF branch = "insert"
                      THEN IF e.key_ = None THEN {KeyErr}
                           ELSE GraphInsertEdge(GraphOf(e.coll), data)
                      ELSE GraphReplaceEdge(GraphOf(e.coll), data)
       IN
       \E reply \in replies :
          /\ reply.st = "ok" => revCtr <= MaxEdgeWrites
          /\ edge' = [edge EXCEPT ![c] = SaveApply(e, reply)]
          /\ edges' = IF reply.st = "ok"
                      THEN [edges EXCEPT ![e.coll][reply.key] =
                              [rev |-> reply.rev, name |-> data.name,
                               from |-> data.from, to |-> data.to]]
                      ELSE edges
          /\ revCtr' = IF reply.st = "ok" THEN revCtr + 1 ELSE revCtr
          /\ ev' = Event(c, GraphCall("save", "graph", branch, FALSE, data), reply,
                         SaveOutcome("graph", branch, reply))
    /\ UNCHANGED graphs
    /\ UNCHANGED <<keyGen, uniqueName, docs, rec, req, everOk, deleted, staleWrite>>
    /\ UNCHANGED lockVars
    /\ UNCHANGED cursorVars

\* reload of the edge: load(self.key_) from the edge collection
EdgeReload(c) ==
    /\ Idle(c)
    /\ edge[c] # NoEdgeHandle
    /\ LET e == edge[c]
           found == ReloadHasKey(e) /\ EdgeExists(e.coll, e.key_)
           reply == IF found THEN Ok(e.key_, edges[e.coll][e.key_].rev) ELSE Missing
       IN
       /\ edge' = [edge EXCEPT ![c] =
                     IF found
                     THEN [e EXCEPT !.rev_ = reply.rev, !.name = edges[e.coll][e.key_].name]
                     ELSE e]
       /\ ev' = Event(c, GraphCall("reload", "model", "get", FALSE,
                                   edge_get_arangodb_data(e)), reply, LoadOutcome(reply))
    /\ UNCHANGED <<graphs, edges>>
    /\ UNCHANGED <<keyGen, uniqueName, docs, revCtr, rec, req, everOk, deleted, staleWrite>>
    /\ UNCHANGED lockVars
    /\ UNCHANGED cursorVars

\* Graph.delete(edge): isinstance(model, EdgeModel), so delete_edge
GraphDeleteEdge(c, ignore_missing) ==
    /\ Idle(c)
    /\ edge[c] # NoEdgeHandle
    /\ LET data == edge_get_arangodb_data(edge[c]) IN
       \E reply \in GraphDeleteEdgeCall(GraphOf(edge[c].coll), data, ignore_missing) :
          /\ edges' = IF reply.st = "ok"
                      THEN [edges EXCEPT ![data.coll][data.key] = NoEdge] ELSE edges
          /\ ev' = Event(c, GraphCall("delete", "graph", "edge", ignore_missing, data),
                         reply, GraphDeleteOutcome(reply, ignore_missing))
    /\ UNCHANGED <<graphs, edge>>
    /\ UNCHANGED <<keyGen, uniqueName, docs, revCtr, rec, req, everOk, deleted, staleWrite>>
    /\ UNCHANGED lockVars
    /\ UNCHANGED cursorVars

\* variant: Graph.delete removes a vertex through its collection
DeleteVertexThroughCollection(via) == "model"

\* the interface that removes the vertex: the collection for Model.delete,
\* cls.get_graph().delete_vertex for Graph.delete
DeleteVertexThrough(via) == via

\* the handle of the vertex stored, or once stored, under k
VertexHandle(k) == [key_ |-> k, rev_ |-> RevName[1], name |-> IF k = "k1" THEN "a" ELSE "b"]

\* Model.delete (via "model") or Graph.delete through graph g (via "graph") of
\* the vertex k
DeleteVertex(c, via, g, k, ignore_missing) ==
    /\ Idle(c)
    /\ LET data == get_arangodb_data(VertexHandle(k))
           through == DeleteVertexThrough(via)
           replies == IF through = "graph" /\ g \notin graphs
                      THEN {Err("DocumentDeleteError", ERROR_GRAPH_NOT_FOUND)}
                      ELSE DriverDelete(data, ignore_missing)
       IN
       \E reply \in replies :
          /\ docs' = DocsAfter("delete", reply, data)
          /\ edges' = IF through = "graph" /\ reply.st = "ok" THEN Cascade(k) ELSE edges
          /\ ev' = Event(c, GraphCall("delete", via, "vertex", ignore_missing, data),
                         reply,
                         IF via = "graph" THEN GraphDeleteOutcome(reply, ignore_missing)
                         ELSE DeleteOutcome(reply, ignore_missing))
    /\ UNCHANGED <<graphs, edge>>
    /\ UNCHANGED <<keyGen, uniqueName, revCtr, rec, req, everOk, deleted, staleWrite>>
    /\ UNCHANGED lockVars
    /\ UNCHANGED cursorVars

\* ensure_graph up to the answer of db.has_graph(name)
EnsureGraphBegin(c, g) ==
    /\ Idle(c)
    /\ req' = [req EXCEPT ![c] = [name |-> g, op |-> "ensure_graph", has |-> g \in graphs]]
    /\ UNCHANGED ev
    /\ UNCHANGED <<keyGen, uniqueName, docs, revCtr, rec, everOk, deleted, staleWrite>>
    /\ UNCHANGED lockVars
    /\ UNCHANGED cursorVars
    /\ UNCHANGED graphVars

\* ensure_graph from the answer on: db.create_graph(name, ...) if the answer was
\* no; the store refuses to create a graph that exists
EnsureGraphEnd(c) ==
    /\ req[c].op = "ensure_graph"
    /\ ev = NoEv
    /\ LET g == req[c].name
           reply == IF req[c].has THEN Ok(None, "")
                    ELSE IF g \in graphs THEN Err("GraphCreateError", ERROR_GRAPH_DUPLICATE)
                    ELSE Ok(g, "")
       IN
       /\ graphs' = IF reply.st = "ok" THEN graphs \cup {g} ELSE graphs
       /\ ev' = Event(c, GraphCall("ensure_graph", "graph",
                                   IF req[c].has THEN "exists" ELSE "create", FALSE,
                                   [key |-> g]),
                      reply,
                      IF reply.st = "ok" THEN Ret(None) ELSE Raise(reply.err, reply.code))
    /\ req' = [req EXCEPT ![c] = NoReq]
    /\ UNCHANGED <<edges, edge>>
    /\ UNCHANGED <<keyGen, uniqueName, docs, revCtr, rec, everOk, deleted, staleWrite>>
    /\ UNCHANGED lockVars
    /\ UNCHANGED cursorVars

\* delete_graph(ignore_missing): the collections are kept
DeleteGraph(c, g, ignore_missing) ==
    /\ Idle(c)
    /\ LET reply == IF g \in graphs THEN Ok(g, "")
                    ELSE IF ignore_missing THEN Missing
                    ELSE Err("GraphDeleteError", ERROR_GRAPH_NOT_FOUND)
       IN
       /\ graphs' = graphs \ {g}
       /\ ev' = Event(c, GraphCall("delete_graph", "graph", "delete", ignore_missing,
                                   [key |-> g]),
                      reply, DeleteGraphOutcome(reply, ignore_missing))
    /\ UNCHANGED <<edges, edge>>
    /\ UNCHANGED <<keyGen, uniqueName, docs, revCtr, rec, req, everOk, deleted, staleWrite>>
    /\ UNCHANGED lockVars
    /\ UNCHANGED cursorVars

\* two vertices are stored, both graphs are defined and no edge exists yet
InitGraph ==
    /\ keyGen \in BOOLEAN
    /\ uniqueName = TRUE
    /\ docs = [k \in Keys |-> [rev |-> RevName[1], name |-> VertexHandle(k).name]]
    /\ revCtr = 1
    /\ rec = [c \in Callers |-> NewRec]
    /\ req = [c \in Callers |-> NoReq]
    /\ ev = NoEv
    /\ everOk = [c \in Callers |-> FALSE]
    /\ deleted = [c \in Callers |-> 0]
    /\ staleWrite = FALSE
    /\ lockConf = TRUE
    /\ LockIdle
    /\ NoCursors
    /\ graphs = GraphNames
    /\ edges = [coll \in EdgeColls |-> [k \in EdgeKeys |-> NoEdge]]
    /\ edge = [c \in Callers |-> NoEdgeHandle]

NextGraph ==
    \/ Observe
    \/ \E c \in Callers, coll \in EdgeColls, k \in EdgeKeys \cup {None}, n \in Names :
          NewEdge(c, coll, k, n)
    \/ \E c \in Callers, n \in Names : SetKind(c, n)
    \/ \E c \in Callers, gen \in EdgeKeys : GraphSaveEdge(c, gen)
    \/ \E c \in Callers : EdgeReload(c)
    \/ \E c \in Callers, ignore_missing \in BOOLEAN : GraphDeleteEdge(c, ignore_missing)
    \/ \E c \in Callers, via \in {"model", "graph"}, k \in Keys, ignore_missing \in BOOLEAN :
          DeleteVertex(c, via, "relation_graph", k, ignore_missing)

SpecGraph == InitGraph /\ [][NextGraph]_vars

\* the graph definitions alone: ensure_graph and delete_graph of the callers
InitEnsure ==
    /\ InitLock
    /\ lockConf = TRUE
    /\ rec = [c \in Callers |-> NewRec]

NextEnsure ==
    \/ Observe
    \/ \E c \in Callers, g \in GraphNames : EnsureGraphBegin(c, g)
    \/ \E c \in Callers : EnsureGraphEnd(c)
    \/ \E c \in Callers, g \in GraphNames, ignore_missing \in BOOLEAN :
          DeleteGraph(c, g, ignore_missing)

SpecEnsure == InitEnsure /\ [][NextEnsure]_vars

\* ---------------------------------------------------------------------------
\* Properties of the Graph coordinator

\* the step is a Graph.save of the edge of c
EdgeSaved(c) == edge[c] # NoEdgeHandle /\ ev = NoEv /\ ev'.op = "save" /\ ev'.c = c

\* an end of the edge of c names a vertex that is not stored
DanglingEdge(c) == ~Exists(edge[c].from_.key) \/ ~Exists(edge[c].to_.key)

\* C26: Graph.save of an edge whose from or to vertex no longer exists fails
\* with ModelNotFoundError, for a new edge (insert) and for a Persisted one
\* (replace), and leaves key_ and rev_ of the edge as they were; a uniqueness
\* violation fails with UniqueConstraintError in either branch.
C26_DanglingEdgeSave ==
    [][\A c \in Callers :
          EdgeSaved(c) =>
             /\ ev'.reply.code = ERROR_ARANGO_UNIQUE_CONSTRAINT_VIOLATED
                    => ev'.out = Raise("UniqueConstraintError", 0)
             /\ (DanglingEdge(c)
                     /\ ev'.reply.code # ERROR_ARANGO_UNIQUE_CONSTRAINT_VIOLATED
                     /\ ev'.reply.code # ERROR_ARANGO_CONFLICT)
                    => /\ ev'.out = Raise("ModelNotFoundError", 0)
                       /\ edge'[c].key_ = edge[c].key_
                       /\ edge'[c].rev_ = edge[c].rev_]_vars

\* the step is a successful deletion of vertex k through Graph.delete
VertexDeleted(via, k) ==
    /\ ev = NoEv
    /\ ev'.op = "delete" /\ ev'.branch = "vertex" /\ ev'.via = via
    /\ ev'.key = k
    /\ ev'.out = Ret("True")

\* the stored edges from or to vertex k
Incident(k) ==
    {<<coll, e>> \in EdgeColls \X EdgeKeys :
        EdgeExists(coll, e)
          /\ (edges[coll][e].from.key = k \/ edges[coll][e].to.key = k)}

\* the step is a reload or a Graph.delete, without ignore_missing, of a saved
\* edge that is not stored
GoneEdgeUsed ==
    /\ ev = NoEv
    /\ ev'.op \in {"reload", "delete"}
    /\ ev'.branch \in {"get", "edge"}
    /\ ~ev'.ignore
    /\ edge[ev'.c].rev_ # ""
    /\ ~EdgeExists(edge[ev'.c].coll, edge[ev'.c].key_)

\* C27: Graph.delete of a vertex removes every edge from or to it in the edge
\* collections of all graphs, so that a later reload or Graph.delete of such an
\* edge fails with ModelNotFoundError; Model.delete of a vertex removes the
\* vertex alone and leaves every edge stored.
C27_VertexDeleteCascade ==
    [][/\ \A k \in Keys :
            /\ VertexDeleted("graph", k) =>
                  /\ ~Exists(k)'
                  /\ \A coll \in EdgeColls, e \in EdgeKeys :
                        edges'[coll][e] =
                           IF <<coll, e>> \in Incident(k) THEN NoEdge ELSE edges[coll][e]
            /\ VertexDeleted("model", k) => (~Exists(k)' /\ edges' = edges)
       /\ GoneEdgeUsed => ev'.out = Raise("ModelNotFoundError", 0)]_vars

\* a vertex has just been deleted through the first graph while the callers
\* hold the handles of two saved edges to it, one in the edge collection of
\* each graph, and neither edge is stored any more
C27_Witness ==
    /\ ev.op = "delete" /\ ev.branch = "vertex" /\ ev.via = "graph"
    /\ ev.out = Ret("True")
    /\ revCtr = 3
    /\ \A c \in Callers : edge[c] # NoEdgeHandle /\ edge[c].rev_ # ""
    /\ {edge[c].coll : c \in Callers} = EdgeColls
    /\ \A coll \in EdgeColls, e \in EdgeKeys : ~EdgeExists(coll, e)

\* the step is the end of an ensure_graph call
Ensured == ev = NoEv /\ ev'.op = "ensure_graph"

\* C28: ensure_graph creates nothing and raises nothing when the graph exists,
\* and no ensure_graph call fails, also when the has_graph and create_graph
\* requests of several callers interleave: after the call the graph exists.
\* delete_graph of a missing graph fails with GraphNotFoundError, or returns
\* False with ignore_missing.
C28_EnsureGraphIdempotent ==
    [][/\ Ensured =>
            /\ ev'.out = Ret(None)
            /\ ev'.key \in graphs'
            /\ ev'.key \in graphs => graphs' = graphs
       /\ (ev = NoEv /\ ev'.op = "delete_graph" /\ ev'.key \notin graphs) =>
            ev'.out = IF ev'.ignore THEN Ret("False")
                      ELSE Raise("GraphNotFoundError", 0)]_vars

(* ---------------------------------------------------------------------- *)
(* Locks without a configured backend                                      *)
(* ---------------------------------------------------------------------- *)
LockEntries == {"get_lock", "lock_and_load", "lock_and_reload"}

\* C29: while no lock backend is configured, get_lock, lock_and_load and
\* lock_and_reload raise ConfigError, and the call acquires no lock, reads
\* no document into a handle and runs no part of a scope: no lock document
\* appears, no caller leaves its idle position, no handle changes and no
\* caller's scope trace gets an entry
C29_ConfigErrorWithoutLock ==
    [][~lockConf =>
         /\ ev'.op \in LockEntries
         /\ ev'.out = Raise("ConfigError", 0)
         /\ UNCHANGED <<locks, pc, rec, everOk, docs>>
         /\ \A c \in Callers : trace'[c] = <<>>]_vars

\* lock_and_reload of a handle has raised ConfigError, nothing being locked
C29_Witness ==
    /\ ~lockConf
    /\ ev.op = "lock_and_reload"
    /\ ev.out = Raise("ConfigError", 0)
    /\ pc[ev.c] = "idle"
    /\ \A n \in LockNames : locks[n] = NoLock

(* ---------------------------------------------------------------------- *)
(* The lock backend's acquire                                              *)
(* ---------------------------------------------------------------------- *)
\* the replies of the store to the INSERT of a lock document: the unique
\* index answers 1210 for a name that is stored, a write on the same name
\* that is still in progress answers 1200, and any request can fail for a
\* reason of its own (here: the lock collection is gone)
InsertReplies(name) ==
    {LockInsert(name), Err("ArangoServerError", DATA_SOURCE_NOT_FOUND)}
        \cup (IF locks[name] # NoLock
              THEN {Err("ArangoServerError", ERROR_ARANGO_CONFLICT)}
              ELSE {})

AcquireCall(name, block) == [name |-> name, op |-> "acquire", block |-> block]

AttemptEvent(c, name, block, reply, res) ==
    [name |-> name, op |-> "attempt", c |-> c, reply |-> reply, block |-> block, res |-> res]

\* one turn of the loop of acquire: the insert and what follows from its reply
Attempt(c, name, block, reply) ==
    LET res == AcquireOutcome(reply, block) IN
    /\ locks' = IF res = "True" THEN [locks EXCEPT ![name] = c] ELSE locks
    /\ pc' = [pc EXCEPT ![c] = IF res = "True" THEN "holding"
                               ELSE IF res = "sleep" THEN "sleep" ELSE "idle"]
    /\ req' = [req EXCEPT ![c] = IF res = "sleep" THEN AcquireCall(name, block) ELSE NoReq]
    /\ scope' = [scope EXCEPT ![c] =
            IF res = "True"
            THEN [op |-> "lock", key |-> name.key, name |-> name, exc |-> "none"]
            ELSE @]
    /\ ev' = AttemptEvent(c, name, block, reply, res)
    /\ UNCHANGED <<keyGen, uniqueName, docs, revCtr, rec, everOk, deleted, staleWrite>>
    /\ UNCHANGED <<lockConf, trace, ttlFired>>
    /\ UNCHANGED cursorVars
    /\ UNCHANGED graphVars

\* acquire(name, block) up to the end of its first insert
BackendAcquire(c, key, block) ==
    /\ pc[c] = "idle"
    /\ \E reply \in InsertReplies(get_lock_name(key)) :
            Attempt(c, get_lock_name(key), block, reply)

\* sleep(POLL_DELAY) is over and the insert is sent again
Retry(c) ==
    /\ pc[c] = "sleep"
    /\ \E reply \in InsertReplies(req[c].name) :
            Attempt(c, req[c].name, req[c].block, reply)

InitAcquire ==
    /\ InitLock
    /\ lockConf = TRUE

NextAcquire ==
    \/ \E n \in LockNames : Expire(n)
    \/ \E c \in Callers :
        \/ \E k \in Keys, block \in BOOLEAN : BackendAcquire(c, k, block)
        \/ Retry(c)
        \/ Unlock(c)

SpecAcquire == InitAcquire /\ [][NextAcquire]_vars

AlreadyLocked == {ERROR_ARANGO_UNIQUE_CONSTRAINT_VIOLATED, ERROR_ARANGO_CONFLICT}

\* C30: acquire returns True exactly when its insert went through, and then
\* the lock document is the caller's; it returns False only when block is
\* False and a lock document of the name is stored; with block True a reply
\* of 1210 or 1200 puts the caller to sleep for another insert of the same
\* name and never gives False; any other error of the store ends the call
\* at once with that error; unless True is returned no lock is taken
C30_AcquireResult ==
    [][ev'.op = "attempt" =>
         /\ (ev'.res = "True") <=> (ev'.reply.st = "ok")
         /\ ev'.res = "True" => locks'[ev'.name] = ev'.c
         /\ ev'.res = "False" => ~ev'.block /\ locks[ev'.name] # NoLock
         /\ (ev'.block /\ ev'.reply.code \in AlreadyLocked) =>
                /\ ev'.res = "sleep"
                /\ pc'[ev'.c] = "sleep"
                /\ req'[ev'.c] = AcquireCall(ev'.name, TRUE)
         /\ (ev'.reply.st = "err" /\ ev'.reply.code \notin AlreadyLocked) =>
                /\ ev'.res = "raise"
                /\ pc'[ev'.c] = "idle"
                /\ req'[ev'.c] = NoReq
         /\ ev'.res # "True" => locks' = locks]_vars

\* a blocking acquire was answered 1200 for a lock another caller holds,
\* and sleeps before its next insert
C30_Witness ==
    /\ ev.op = "attempt"
    /\ ev.block
    /\ ev.reply.code = ERROR_ARANGO_CONFLICT
    /\ ev.res = "sleep"
    /\ pc[ev.c] = "sleep"
    /\ locks[ev.name] \notin {NoLock, ev.c}

(* ---------------------------------------------------------------------- *)
(* The hook before a save                                                  *)
(* ---------------------------------------------------------------------- *)
HookKwargs == {[override_extra |-> v] : v \in Names \cup {None}}

\* saves with keyword arguments, by Model.save and by Graph.save, of records
\* whose type overrides the hook
NextHook ==
    \/ Observe
    \/ \E c \in Callers :
        \/ \E k \in Keys \cup {None} : Construct(c, k)
        \/ \E via \in {"model", "graph"}, kwargs \in HookKwargs : SaveStart(c, via, kwargs)
        \/ SaveComplete(c)

SpecHook == Init /\ [][NextHook]_vars

\* the step starts a save of the caller, and the step ends one
SaveStarts(c) == req[c] = NoReq /\ req'[c].op = "save"
SaveEnds(c) == req[c].op = "save" /\ req'[c] = NoReq

\* C31: a save call invokes before_save once, before its store write, with
\* new = True exactly when the record is Transient at the start of the call
\* and with the caller's keyword arguments; what the hook writes to the
\* payload is in the document handed to the store, and in the stored
\* document when the write goes through
C31_HookOncePerSave ==
    [][\A c \in Callers :
         /\ SaveStarts(c) =>
              /\ req'[c].hook = <<[kwargs |-> req'[c].kwargs, new |-> IsNew(rec[c])]>>
              /\ docs' = docs
              /\ req'[c].kwargs.override_extra # None =>
                    rec'[c].name = req'[c].kwargs.override_extra
              /\ req'[c].data.name = rec'[c].name
         /\ SaveEnds(c) =>
              /\ Len(req[c].hook) = 1
              /\ ev'.reply.st = "ok" =>
                    docs'[ev'.reply.key].name = req[c].data.name]_vars

\* Graph.save of a Persisted record has stored the payload that the hook
\* wrote from the caller's keyword argument
C31_Witness ==
    /\ ev.op = "save"
    /\ ev.via = "graph"
    /\ ev.branch = "update"
    /\ ev.reply.st = "ok"
    /\ docs[ev.reply.key].name = "b"

(* ---------------------------------------------------------------------- *)
(* The serialised form of an edge                                          *)
(* ---------------------------------------------------------------------- *)
\* what the caller can give as an end of an edge: the identifier of a
\* vertex, or a vertex record that is Persisted, Transient with a key of
\* the caller's choice, or Transient without a key
EdgeEnds ==
    {[coll |-> COLL, key |-> "k1"],
     StoredRec,
     [key_ |-> "k2", rev_ |-> "", name |-> "b"],
     NewRec}

\* the caller builds an edge between two ends, Link(_from=..., _to=...)
MakeEdge(c, k, from_, to_) ==
    /\ Idle(c)
    /\ edge' = (c :> [name |-> "x", coll |-> "relations", key_ |-> k, rev_ |-> "",
                      from_ |-> from_, to_ |-> to_]) @@ edge
    /\ UNCHANGED <<graphs, edges, ev>>
    /\ UNCHANGED <<keyGen, uniqueName, docs, revCtr, rec, req, everOk, deleted, staleWrite>>
    /\ UNCHANGED lockVars
    /\ UNCHANGED cursorVars

\* edge.get_arangodb_data()
Serialise(c) ==
    /\ Idle(c)
    /\ c \in DOMAIN edge
    /\ ev' = [op |-> "get_arangodb_data", c |-> c, data |-> edge_get_arangodb_data(edge[c])]
    /\ UNCHANGED <<graphs, edges, edge>>
    /\ UNCHANGED <<keyGen, uniqueName, docs, revCtr, rec, req, everOk, deleted, staleWrite>>
    /\ UNCHANGED lockVars
    /\ UNCHANGED cursorVars

NextEdgeData ==
    \/ Observe
    \/ \E c \in Callers :
        \/ \E k \in EdgeKeys \cup {None}, from_ \in EdgeEnds, to_ \in EdgeEnds :
              MakeEdge(c, k, from_, to_)
        \/ Serialise(c)

SpecEdgeData == Init /\ [][NextEdgeData]_vars

\* the value has the form "<collection>/<key>"
IsIdentifier(x) == DOMAIN x = {"coll", "key"} /\ x.coll # None /\ x.key # None

\* C32: the serialised form of an edge has identifiers "<collection>/<key>"
\* as _from and _to, whatever the caller gave as the ends of the edge: an
\* identifier or a vertex record, Persisted or Transient, with or without a key
C32_EdgeEndsAreIdentifiers ==
    ev.op = "get_arangodb_data" =>
        /\ IsIdentifier(ev.data.from)
        /\ IsIdentifier(ev.data.to)

(* ---------------------------------------------------------------------- *)
(* Lock names                                                              *)
(* ---------------------------------------------------------------------- *)
\* C33: get_lock_name gives two different pairs of collection name and key
\* two different lock names
C33_LockNamePerPair ==
    ev.op = "get_lock_name" =>
        \A coll \in LockCollections, key \in LockKeys :
            <<coll, key>> # ev.arg => LockNameText(coll, key) # ev.out

(* ---------------------------------------------------------------------- *)
(* The names of the bind variables of find                                 *)
(* ---------------------------------------------------------------------- *)
\* find has compiled its query
Found == ev.op = "find" /\ ev.out.err = "none"

\* C35: in the bind variables that find sends, different variables have
\* different names, the map has every binding of the filter clauses, of the
\* sort clause and of the collection with the value bound there, and every
\* placeholder of the query text has a value
C35_BindVarsDistinct ==
    Found =>
        LET bf == build_filters(ev.arg.filters, "i")
            bs == build_sort("i", ev.arg.sort)
            bv == ev.out.bind_vars
        IN /\ \A v, w \in DOMAIN bv : v # w => BindVarName(v) # BindVarName(w)
           /\ DOMAIN bv = DOMAIN bf.bind_vars \cup DOMAIN bs.bind_vars \cup {COLLECTION_VAR}
           /\ \A v \in DOMAIN bf.bind_vars : bv[v] = bf.bind_vars[v]
           /\ \A v \in DOMAIN bs.bind_vars : bv[v] = bs.bind_vars[v]
           /\ bv[COLLECTION_VAR] = Str(COLL)
           /\ \A n \in DOMAIN ev.out.query :
                 ev.out.query[n].tok = "ref" => ev.out.query[n].var \in DOMAIN bv

\* a query with two filter entries and two sort entries has been compiled
C35_Witness ==
    /\ Found
    /\ Len(ev.arg.filters) = 2
    /\ Len(ev.arg.sort) = 2
    /\ Cardinality(DOMAIN ev.out.bind_vars) >= 7

(* ---------------------------------------------------------------------- *)
(* Critical sections: lock_and_load, change a field, save                  *)
(* ---------------------------------------------------------------------- *)
\* the change of a caller: its mark is added to the payload it has loaded
Mark(n, c) ==
    IF c = "c1"
    THEN (CASE n = "a" -> "a1" [] n = "a2" -> "a21" [] OTHER -> n)
    ELSE (CASE n = "a" -> "a2" [] n = "a1" -> "a12" [] OTHER -> n)

\* async with Company.lock_and_load(key) as c, by a caller that has not run
\* its critical section yet
CriticalEnter(c, key) ==
    /\ trace[c] = <<>>
    /\ lock_and_load(c, key)

\* the body of the critical section: c.field = ...; await c.save()
CriticalBody(c) ==
    /\ pc[c] = "body"
    /\ LET r == [rec[c] EXCEPT !.name = Mark(@, c)]
           branch == IF IsNew(r) THEN "insert" ELSE "update"
           data == SaveData(r, "model")
       IN
       \E reply \in SaveCall("model", branch, data) :
          LET out == SaveOutcome("model", branch, reply) IN
          /\ docs' = DocsAfter("save", reply, data)
          /\ revCtr' = IF reply.st = "ok" THEN revCtr + 1 ELSE revCtr
          /\ rec' = [rec EXCEPT ![c] = SaveApply(r, reply)]
          /\ scope' = [scope EXCEPT ![c].exc = IF out.kind = "raise" THEN out.exc ELSE "none"]
          /\ pc' = [pc EXCEPT ![c] = ScopeNext("body", out.kind = "return")]
          /\ ev' = Event(c, Call("save", branch, FALSE, rec[c], data), reply, out)
    /\ trace' = [trace EXCEPT ![c] = Append(@, "body")]
    /\ UNCHANGED <<keyGen, uniqueName, req, everOk, deleted, staleWrite>>
    /\ UNCHANGED <<lockConf, locks, ttlFired>>
    /\ UNCHANGED cursorVars
    /\ UNCHANGED graphVars

InitCritical ==
    /\ InitLock
    /\ lockConf = TRUE
    /\ rec = [c \in Callers |-> NewRec]

NextCritical ==
    \/ \E n \in LockNames : Expire(n)
    \/ \E c \in Callers :
        \/ \E k \in Keys : CriticalEnter(c, k)
        \/ Acquire(c)
        \/ Wake(c)
        \/ Read(c)
        \/ CriticalBody(c)
        \/ Release(c)

SpecCritical == InitCritical /\ [][NextCritical]_vars

\* the critical section of the caller on the stored record has run to its
\* end without an error
Done(c) ==
    /\ trace[c] = <<"acquire", "read", "body", "release">>
    /\ scope[c].key = "k1"
    /\ scope[c].exc = "none"

BothChanges == {"a12", "a21"}

\* C36 as stated: every save inside a critical section succeeds and adds the
\* caller's change to what is stored, and when both callers are through the
\* stored document has both changes
C36_NoLostUpdateNoConflict ==
    /\ [][ev'.op = "save" =>
            /\ ev'.out = Ret(None)
            /\ docs'[ev'.key].name = Mark(docs[ev'.key].name, ev'.c)]_vars
    /\ []((\A c \in Callers : Done(c)) => docs["k1"].name \in BothChanges)

\* C36 amended: a save inside a critical section succeeds unless the TTL has
\* removed a document of its lock since the lock was last unused; a save that
\* succeeds adds the caller's change to what is stored, one that fails is
\* refused for its revision and leaves the store as it is; when both callers
\* are through without an error the stored document has both changes
C36_CriticalSections ==
    /\ [][ev'.op = "save" =>
            /\ ~ttlFired[scope[ev'.c].name] => ev'.out = Ret(None)
            /\ ev'.out = Ret(None) =>
                  docs'[ev'.key].name = Mark(docs[ev'.key].name, ev'.c)
            /\ ev'.out # Ret(None) =>
                  /\ ev'.reply.err = "DocumentRevisionError"
                  /\ docs' = docs]_vars
    /\ []((\A c \in Callers : Done(c)) => docs["k1"].name \in BothChanges)

\* both callers have run their critical section on the record, the second
\* after waiting for the first, and the document has both changes
C36_Witness ==
    /\ \A c \in Callers : Done(c)
    /\ docs["k1"].name \in BothChanges
    /\ \A n \in LockNames : ~ttlFired[n]

(* ---------------------------------------------------------------------- *)
(* The payload of an insert                                                *)
(* ---------------------------------------------------------------------- *)
\* C34: the document that save hands to the store's insert for a Transient
\* record has neither "_key" nor "_id" when the record has no key, and both
\* when it has one, for Model.save and for Graph.save
C34_InsertPayloadKeyFields ==
    \A c \in Callers :
        (req[c].op = "save" /\ req[c].branch = "insert") =>
            IF req[c].data.key = None
            THEN req[c].data.has \cap {"_key", "_id"} = {}
            ELSE {"_key", "_id"} \subseteq req[c].data.has

(* ---------------------------------------------------------------------- *)
(* Mutual exclusion of the lock backend                                    *)
(* ---------------------------------------------------------------------- *)
\* release(name) by a caller that does not hold the lock, as after its own
\* non-blocking acquire has returned False
BackendRelease(c, key) ==
    /\ pc[c] = "idle"
    /\ locks' = LockRemove(get_lock_name(key))
    /\ ev' = LockEvent(c, "release", get_lock_name(key), Ret(None))
    /\ UNCHANGED <<lockConf, pc, scope, trace, ttlFired, rec, everOk>>
    /\ UNCHANGED persistVars
    /\ UNCHANGED cursorVars
    /\ UNCHANGED graphVars

\* acquire and release calls of the callers in any order, without an expiry
NextBackend ==
    \E c \in Callers :
        \/ \E k \in Keys, block \in BOOLEAN : BackendAcquire(c, k, block)
        \/ Retry(c)
        \/ Unlock(c)
        \/ \E k \in Keys : BackendRelease(c, k)

SpecBackend == InitAcquire /\ [][NextBackend]_vars

\* the caller's acquire of the name has returned True and the caller has not
\* released the lock since
Holds(c, name) == pc[c] = "holding" /\ scope[c].name = name

\* C37: at most one caller holds the lock of a name, and a release of the
\* name by a caller that does not hold it leaves the lock document of the
\* holder in place
C37_OneHolder ==
    /\ [](\A n \in LockNames : Cardinality({c \in Callers : Holds(c, n)}) <= 1)
    /\ [][(ev'.op = "release" /\ \E c \in Callers \ {ev'.c} : Holds(c, ev'.name)) =>
              locks'[ev'.name] = locks[ev'.name]]_vars

(* ---------------------------------------------------------------------- *)
(* The handle of a deleted document                                        *)
(* ---------------------------------------------------------------------- *)
\* the step finishes a save on a handle that has deleted its document and
\* has not loaded or saved one since
SavesDeleted == Finishes("save") /\ deleted[ev'.c] >= 1 /\ PreRec.rev_ # ""

\* the step finishes a save on a handle, with or without a revision, that
\* has deleted a document and has not loaded or saved one since
SavesAfterDelete == Finishes("save") /\ deleted[ev'.c] >= 1

ServedAcquire(c, key, block) == BackendAcquire(c, key, block) /\ ev'.res # "raise"
ServedRetry(c) == Retry(c) /\ ev'.res # "raise"

NextLive ==
    \E c \in Callers :
        \/ \E k \in Keys, block \in BOOLEAN : ServedAcquire(c, k, block)
        \/ ServedRetry(c)
        \/ Unlock(c)

\* every caller that sleeps in acquire polls again, and every holder releases
FairLive ==
    \A c \in Callers : WF_vars(ServedRetry(c)) /\ WF_vars(Unlock(c))

SpecLive == InitAcquire /\ [][NextLive]_vars /\ FairLive

\* the caller is inside a blocking acquire / its acquire has returned True
Waiting(c) == pc[c] = "sleep"
Acquired(c) == pc[c] = "holding"
\* the step gives the lock that c waits for to another caller
OtherTakes(c) ==
    \E d \in Callers \ {c} :
        /\ pc[d] # "holding" /\ pc'[d] = "holding"
        /\ pc[c] = "sleep" /\ scope'[d].name = req[c].name

====
